---- MODULE Spec2Model ----
(***************************************************************************)
(* Model of USTB-QGXF (src/Main.py, src/utils/TerminalUI.py).              *)
(*                                                                         *)
(*   SchedSpec : AutoTrainer.watch / AutoTrainer._watch /                  *)
(*               AutoTrainer.is_subthread_completed - one submitting       *)
(*               thread and one worker thread per admitted job, sharing    *)
(*               the unsynchronised counter _now_jobs.                     *)
(*   SendSpec  : QiangGuoXianFengAPI._send - the retry loop around one     *)
(*               HTTP request and the classification of its response.     *)
(*   PageSpec  : QiangGuoXianFengAPI._fetch_pagination - the page loop.    *)
(*   ConvSpec  : AutoTrainer._second_to_hhmmss / _hhmmss_to_second applied *)
(*               one after the other to one input.                         *)
(*   DispSpec  : TerminalUI / ObservableLine - threads calling add_line,   *)
(*               remove_line, remove_all_lines and write next to the       *)
(*               render thread (_loop, _print).                            *)
(*   DispLifeSpec : the same with a thread calling dispose(), under weak   *)
(*               fairness of the render and the disposing thread.          *)
(*   DispFailSpec : the same as DispSpec with a target that may raise.     *)
(*   SchedFairSpec : SchedSpec with one more watch() call, under weak      *)
(*               fairness of the workers and of the polling loop.          *)
(*   LoginSpec : AutoTrainer.auto_login / manual_login and the token of    *)
(*               the session.                                              *)
(*   InputSpec : input_validated_number applied to one typed line.         *)
(*   WatchSpec : the Line writes and reports of one _watch call, with the  *)
(*               perturbation of Randomness.about (the counter _now_jobs   *)
(*               of lines 352 and 372 is followed in SchedSpec).           *)
(*   ExamSpec  : AutoTrainer.do_lesson_exam_all - the attempts of each     *)
(*               exam of the list and the status lines added for it.       *)
(*   MemSpec   : the answer memory in AutoTrainer.do_exam - the table of   *)
(*               Config loaded, merged with the exam report and dumped     *)
(*               (src/data/Question.py, src/data/Config.py).               *)
(*   ObsSpec   : one ObservableLine - a thread inside write() next to the  *)
(*               render thread inside read().                              *)
(***************************************************************************)
EXTENDS Integers, Sequences, FiniteSets, TLC

(* ---------------------------------------------------------------------- *)
(* Bounds                                                                 *)
(* ---------------------------------------------------------------------- *)
\* number of resources handed to watch() by the caller
NumJobs == 2
\* largest start offset / total duration of a resource, in seconds
MaxSeconds == 1
\* largest report interval tried (0 is accepted by AutoTrainer.__init__)
MaxInterval == 1
\* largest max_jobs tried
MaxJobsBound == 2
\* largest max_retries handed to QiangGuoXianFengAPI.__init__
MaxRetriesBound == 3
\* largest page_size handed to _fetch_pagination, and largest page returned
MaxPageSize == 2
\* largest max_page_num handed to _fetch_pagination
MaxPages == 4
\* the times converted are below this many hours
MaxHours == 24
\* number of lines add_line creates
NumLines == 2
\* largest number of items in the content handed to add_line / write
MaxItems == 2
\* number of writes made to the lines
MaxWrites == 1
\* rounds of the manual login loop followed
MaxLogins == 2
\* longest line typed in at a numeric prompt
MaxInputLen == 3
\* largest start offset / total duration of the resource of the _watch
\* call followed on its own, in seconds
MaxClock == 5
\* largest report interval of that call
MaxStep == 2
\* exams in the list get_lesson_exam_list returns
MaxExams == 2
\* largest max_retries handed to do_lesson_exam_all
MaxAttempts == 2
\* largest score and largest pass_score
MaxScore == 2
\* largest question id in the answer memory and in an exam report
MaxQid == 1
\* most questions in an exam report
MaxReport == 2

(* ---------------------------------------------------------------------- *)
(* Program constants                                                      *)
(* ---------------------------------------------------------------------- *)
FINISHING_REPORT_TIMES == 2
CODE_SUCCESS == 99999
CODE_PERMISSION == 10002
CODE_UNAUTHORIZED == 10003

Workers == 1..NumJobs

VARIABLES
    \* ---- AutoTrainer ----
    max_jobs,          \* self.max_jobs
    report_interval,   \* self._report_interval
    now_jobs,          \* self._now_jobs
    threads,           \* self._threads: sequence of worker ids
    \* ---- the thread calling watch() / is_subthread_completed() ----
    mpc,               \* its position
    mjob,              \* resource it is submitting (0: none)
    waiting_line,      \* the "queueing" Line of watch() is on display
    chk_idx,           \* loop index of is_subthread_completed
    chk_result,        \* last value returned by is_subthread_completed
    chk_all_done,      \* history: every launched worker was dead when the call began
    \* ---- one _watch thread per job ----
    wpc,               \* position of worker w
    wtmp,              \* value of self._now_jobs loaded by w's pending += / -=
    wtotal,            \* total (seconds)
    wnow,              \* next value of the range() iterator
    wfin,              \* finishing reports sent
    wline,             \* state of w's progress Line
    wraised,           \* history: a condition was raised inside w's try block
    wincs,             \* history: increments executed by w
    wdecs,             \* history: decrements executed by w
    \* ---- QiangGuoXianFengAPI._send ----
    s_pc,              \* position inside _send
    s_max_retries,     \* self._max_retries
    s_no_retry,        \* no_retry argument
    s_iter,            \* iterations of the for loop begun
    s_log,             \* what the transport did on each request issued
    s_exc,             \* condition raised inside the try block, "none" otherwise
    s_sleeps,          \* calls of time.sleep(self._retry_delay)
    s_result,          \* outcome of the call
    \* ---- QiangGuoXianFengAPI._fetch_pagination ----
    p_pc,              \* position inside _fetch_pagination
    p_page_size,       \* page_size argument
    p_max_page_num,    \* max_page_num argument
    p_page_num,        \* page_num
    p_rst,             \* rst: the items accumulated, each <<page, index>>
    p_calls,           \* the pageNum / pageSize of every _send call made
    p_pages,           \* what every _send call gave back
    p_result,          \* outcome of the call
    \* ---- _second_to_hhmmss / _hhmmss_to_second ----
    c_dir,             \* "sec": seconds are formatted, then parsed; "str": the reverse
    c_step,            \* conversions applied so far
    c_in_sec,          \* the seconds given (direction "sec")
    c_in_str,          \* the string given (direction "str")
    c_sec,             \* latest value returned by _hhmmss_to_second
    c_str,             \* latest value returned by _second_to_hhmmss
    \* ---- TerminalUI ----
    d_lines,           \* self.lines: sequence of line ids
    d_next,            \* number of lines created so far
    d_lock,            \* owner of self._condition's lock, or "free"
    d_print_requested, \* self._print_requested
    d_running,         \* self._running
    \* ---- ObservableLine, per line id ----
    l_content,         \* self._content
    l_ver,             \* number of writes made to the line
    l_hist,            \* history: the values _content has had during the repaint in progress
    \* ---- the calling threads ----
    u_pc,              \* position of each caller
    \* ---- the render thread ----
    r_pc,              \* its position
    r_notified,        \* a notify() reached it while it waits
    r_idx,             \* index into self.lines in _print
    r_pos,             \* items the for loop of read() has consumed
    r_full,            \* the string read() is building
    r_out,             \* output_lines
    r_snap,            \* history: self.lines when _print took the lock
    r_detached,        \* the list read() iterates is no longer the line's
    r_list,            \* that list
    \* ---- the terminal ----
    t_last,            \* history: the last write to the target
    \* ---- history of the calls that changed self.lines ----
    g_after_clear,     \* the last one was remove_all_lines
    g_sole,            \* line added right after remove_all_lines, last change (0: none)
    g_gone,            \* the handles remove_line was called with or remove_all_lines took away
    g_late,            \* the handles written to after that
    g_shown,           \* per line id: the latest write a finished repaint has shown
    \* ---- the thread calling dispose() ----
    x_pc,              \* its position
    \* ---- auto_login / manual_login ----
    k_pc,              \* position of the main thread in the login
    k_token,           \* self._headers["Token"] ("none": no such key)
    k_calls,           \* the _send calls made: operation, token carried, outcome
    k_failed,          \* "登录失败" lines added by manual_login
    \* ---- input_validated_number ----
    i_pc,              \* position inside input_validated_number
    i_site,            \* input_type, default_val, min_val, max_val
    i_text,            \* what input() returned
    i_val,             \* input_val
    i_result,          \* the value returned
    \* ---- one _watch call followed on its own ----
    v_pc,              \* position inside _watch
    v_start_time,      \* start_time
    v_total_time,      \* total_time
    v_interval,        \* self._report_interval
    v_start,           \* start
    v_total,           \* total
    v_next,            \* next value of the range() iterator
    v_fin,             \* finishing reports sent
    v_log,             \* history: the writes to the Line and the reports, in order
    v_raised,          \* a condition was raised inside the try block
    \* ---- do_lesson_exam_all ----
    e_pc,              \* position inside do_lesson_exam_all
    e_pass,            \* self.pass_score
    e_max_retries,     \* max_retries argument
    e_left,            \* exams of the list not yet visited
    e_best,            \* e["maxScore"] of the exam being visited
    e_i,               \* attempts of that exam that ended below pass_score
    e_scores,          \* history: the scores do_exam returned for that exam
    e_lines,           \* history: the status lines added for that exam
    \* ---- the answer memory in do_exam ----
    a_pc,              \* position inside do_exam
    a_config,          \* Config: the table under "memory"
    a_file,            \* the table in the configuration file, whole or torn, and whether the last write went through
    a_memory,          \* memory: the Questions loaded from the table
    a_report,          \* question_list_with_answer
    a_old,             \* history: the table under "memory" when do_exam began
    \* ---- one ObservableLine, its writer and its reader ----
    o_content,         \* self._content
    o_changed,         \* self._changed
    o_last_read,       \* self._last_read
    o_ver,             \* number of writes made to the line
    o_wpc,             \* position of the thread calling write()
    o_rpc,             \* position of the render thread inside read()
    o_pos,             \* items the for loop of read() has consumed
    o_full,            \* the string read() is building
    o_detached,        \* the list read() iterates is no longer the line's
    o_list,            \* that list
    o_raced            \* history: _content was assigned during the read() under way or last made

schedVars == <<max_jobs, report_interval, now_jobs, threads, mpc, mjob,
               waiting_line, chk_idx, chk_result, chk_all_done, wpc, wtmp,
               wtotal, wnow, wfin, wline, wraised, wincs, wdecs>>
sendVars == <<s_pc, s_max_retries, s_no_retry, s_iter, s_log,
              s_exc, s_sleeps, s_result>>
pageVars == <<p_pc, p_page_size, p_max_page_num, p_page_num, p_rst, p_calls,
              p_pages, p_result>>
convVars == <<c_dir, c_step, c_in_sec, c_in_str, c_sec, c_str>>
dispVars == <<d_lines, d_next, d_lock, d_print_requested, d_running,
              l_content, l_ver, l_hist, u_pc,
              r_pc, r_notified, r_idx, r_pos, r_full, r_out, r_snap, r_detached,
              r_list, t_last, g_after_clear, g_sole, g_gone, g_late,
              g_shown, x_pc>>
loginVars == <<k_pc, k_token, k_calls, k_failed>>
inputVars == <<i_pc, i_site, i_text, i_val, i_result>>
watchVars == <<v_pc, v_start_time, v_total_time, v_interval, v_start, v_total,
               v_next, v_fin, v_log, v_raised>>
examVars == <<e_pc, e_pass, e_max_retries, e_left, e_best, e_i, e_scores, e_lines>>
memVars == <<a_pc, a_config, a_file, a_memory, a_report, a_old>>
obsVars == <<o_content, o_changed, o_last_read, o_ver, o_wpc, o_rpc, o_pos, o_full, o_detached, o_list, o_raced>>
vars == <<schedVars, sendVars, pageVars, convVars, dispVars, loginVars,
          inputVars, watchVars,
          examVars,
          memVars,
          obsVars>>

\* the variables of the other components, which a component's actions leave alone
notSched == <<sendVars, pageVars, convVars, dispVars, loginVars, inputVars, watchVars,
            examVars,
            memVars,
            obsVars>>
notSend == <<schedVars, pageVars, convVars, dispVars, loginVars, inputVars, watchVars,
            examVars,
            memVars,
            obsVars>>
notPage == <<schedVars, sendVars, convVars, dispVars, loginVars, inputVars, watchVars,
            examVars,
            memVars,
            obsVars>>
notConv == <<schedVars, sendVars, pageVars, dispVars, loginVars, inputVars, watchVars,
            examVars,
            memVars,
            obsVars>>
notDisp == <<schedVars, sendVars, pageVars, convVars, loginVars, inputVars, watchVars,
            examVars,
            memVars,
            obsVars>>
notLogin == <<schedVars, sendVars, pageVars, convVars, dispVars, inputVars, watchVars,
            examVars,
            memVars,
            obsVars>>
notInput == <<schedVars, sendVars, pageVars, convVars, dispVars, loginVars, watchVars,
            examVars,
            memVars,
            obsVars>>
notExam == <<schedVars, sendVars, pageVars, convVars, dispVars, loginVars, inputVars, watchVars,
            memVars,
            obsVars>>
notWatch == <<schedVars, sendVars, pageVars, convVars, dispVars, loginVars, inputVars,
            examVars,
            memVars,
            obsVars>>
notObs == <<schedVars, sendVars, pageVars, convVars, dispVars, loginVars, inputVars, watchVars, examVars, memVars>>
notMem == <<schedVars, sendVars, pageVars, convVars, dispVars, loginVars, inputVars, watchVars, examVars,
            obsVars>>

Max(a, b) == IF a >= b THEN a ELSE b

(* ====================================================================== *)
(* AutoTrainer                                                            *)
(* ====================================================================== *)

\* Thread.is_alive(): true from start() until the target has returned
IsAlive(w) == wpc[w] \notin {"unstarted", "done"}

\* AutoTrainer.__init__: the asserts admit max_jobs > 0, report_interval >= 0
SchedInit ==
    /\ max_jobs \in 1..MaxJobsBound
    /\ report_interval \in 0..MaxInterval
    /\ now_jobs = 0
    /\ threads = <<>>
    /\ mpc = "idle"
    /\ mjob = 0
    /\ waiting_line = FALSE
    /\ chk_idx = 0
    /\ chk_result = "none"
    /\ chk_all_done = FALSE
    /\ wpc = [w \in Workers |-> "unstarted"]
    /\ wtmp = [w \in Workers |-> 0]
    /\ wtotal = [w \in Workers |-> 0]
    /\ wnow = [w \in Workers |-> 0]
    /\ wfin = [w \in Workers |-> 0]
    /\ wline = [w \in Workers |-> "none"]
    /\ wraised = [w \in Workers |-> FALSE]
    /\ wincs = [w \in Workers |-> 0]
    /\ wdecs = [w \in Workers |-> 0]

mainRest == <<max_jobs, report_interval>>
chkVars == <<chk_idx, chk_result, chk_all_done>>
workerVars == <<wpc, wtmp, wtotal, wnow, wfin, wline, wraised, wincs, wdecs>>

\* watch(), lines 375-379: the resource detail is fetched and the queueing
\* Line is added
M_Watch ==
    /\ mpc = "idle"
    /\ Len(threads) < NumJobs
    /\ mjob' = Len(threads) + 1
    /\ waiting_line' = TRUE
    /\ mpc' = "wait"
    /\ chk_result' = "none"
    /\ chk_all_done' = FALSE
    /\ UNCHANGED <<notSched, mainRest, now_jobs, threads, chk_idx, workerVars>>

\* watch(), lines 375-379, called once more after the NumJobs resources
\* whose threads are followed: this call is followed up to the end of its
\* polling loop
M_WatchLast ==
    /\ mpc = "idle"
    /\ Len(threads) = NumJobs
    /\ mjob' = NumJobs + 1
    /\ waiting_line' = TRUE
    /\ mpc' = "wait"
    /\ chk_result' = "none"
    /\ chk_all_done' = FALSE
    /\ UNCHANGED <<notSched, mainRest, now_jobs, threads, chk_idx, workerVars>>

\* watch(), lines 380-387: the polling loop is left when
\* self._now_jobs < self.max_jobs; the Thread object is created
M_Admit ==
    /\ mpc = "wait"
    /\ ~(now_jobs >= max_jobs)
    /\ mpc' = "start"
    /\ UNCHANGED <<notSched, mainRest, now_jobs, threads, mjob, waiting_line, chkVars, workerVars>>

\* watch(), lines 388-389: the queueing Line is removed, thread.start()
M_Start ==
    /\ mpc = "start"
    /\ mjob \in Workers
    /\ waiting_line' = FALSE
    /\ wpc' = [wpc EXCEPT ![mjob] = "inc_load"]
    /\ mpc' = "append"
    /\ UNCHANGED <<notSched, mainRest, now_jobs, threads, mjob, chkVars,
                   wtmp, wtotal, wnow, wfin, wline, wraised, wincs, wdecs>>

\* watch(), line 390: self._threads.append(thread); watch returns
M_Append ==
    /\ mpc = "append"
    /\ threads' = Append(threads, mjob)
    /\ mjob' = 0
    /\ mpc' = "idle"
    /\ UNCHANGED <<notSched, mainRest, now_jobs, waiting_line, chkVars, workerVars>>

\* is_subthread_completed() is entered
M_CheckBegin ==
    /\ mpc = "idle"
    /\ chk_idx' = 1
    /\ chk_result' = "none"
    /\ chk_all_done' = (\A i \in 1..Len(threads) : ~IsAlive(threads[i]))
    /\ mpc' = "check"
    /\ UNCHANGED <<notSched, mainRest, now_jobs, threads, mjob, waiting_line, workerVars>>

\* M_CheckStep with the return True indented into the loop: the answer is
\* given by the first thread alone
M_CheckStep_FirstOnly ==
    /\ mpc = "check"
    /\ IF chk_idx > Len(threads) \/ ~IsAlive(threads[chk_idx])
       THEN chk_result' = "true"
       ELSE chk_result' = "false"
    /\ chk_idx' = 0
    /\ mpc' = "idle"
    /\ UNCHANGED <<notSched, mainRest, now_jobs, threads, mjob, waiting_line, chk_all_done, workerVars>>

\* is_subthread_completed(), lines 270-273: one iteration of the loop,
\* or the return after the last one
M_CheckStep ==
    /\ mpc = "check"
    /\ IF chk_idx > Len(threads)
       THEN /\ chk_result' = "true"
            /\ chk_idx' = 0
            /\ mpc' = "idle"
       ELSE IF IsAlive(threads[chk_idx])
       THEN /\ chk_result' = "false"
            /\ chk_idx' = 0
            /\ mpc' = "idle"
       ELSE /\ chk_idx' = chk_idx + 1
            /\ UNCHANGED <<chk_result, mpc>>
    /\ UNCHANGED <<notSched, mainRest, now_jobs, threads, mjob, waiting_line, chk_all_done, workerVars>>

\* _watch(), line 352: self._now_jobs += 1 is a load ...
W_IncLoad(w) ==
    /\ wpc[w] = "inc_load"
    /\ wtmp' = [wtmp EXCEPT ![w] = now_jobs]
    /\ wpc' = [wpc EXCEPT ![w] = "inc_store"]
    /\ UNCHANGED <<notSched, mainRest, now_jobs, threads, mpc, mjob, waiting_line, chkVars,
                   wtotal, wnow, wfin, wline, wraised, wincs, wdecs>>

\* ... followed by a store; nothing orders it against the other threads
W_IncStore(w) ==
    /\ wpc[w] = "inc_store"
    /\ now_jobs' = wtmp[w] + 1
    /\ wtmp' = [wtmp EXCEPT ![w] = 0]
    /\ wincs' = [wincs EXCEPT ![w] = @ + 1]
    /\ wpc' = [wpc EXCEPT ![w] = "add_line"]
    /\ UNCHANGED <<notSched, mainRest, threads, mpc, mjob, waiting_line, chkVars,
                   wtotal, wnow, wfin, wline, wraised, wdecs>>

\* _watch(), lines 353-357: the progress Line is added, start_time and
\* total_time (the server's values, drawn here where they are parsed) are
\* converted to seconds and the range() is built; range() raises ValueError
\* for step 0
W_AddLine(w) ==
    /\ wpc[w] = "add_line"
    /\ wline' = [wline EXCEPT ![w] = "preparing"]
    /\ \E st \in 0..MaxSeconds, tt \in 0..MaxSeconds :
          IF report_interval = 0
          THEN /\ wraised' = [wraised EXCEPT ![w] = TRUE]
               /\ wpc' = [wpc EXCEPT ![w] = "except"]
               /\ UNCHANGED <<wnow, wtotal>>
          ELSE /\ wnow' = [wnow EXCEPT ![w] = st]
               /\ wtotal' = [wtotal EXCEPT ![w] = tt]
               /\ wpc' = [wpc EXCEPT ![w] = "loop"]
               /\ UNCHANGED wraised
    /\ UNCHANGED <<notSched, mainRest, now_jobs, threads, mpc, mjob, waiting_line, chkVars,
                   wtmp, wfin, wincs, wdecs>>

\* _watch(), lines 357-363: one iteration of the progress loop. The Line is
\* written before set_resource_progress is called; the call returns or
\* raises. A raise leaves the loop: now, total and the finishing counter are
\* not read again and are dropped (here and in the actions below) as soon
\* as that is so
W_Report(w) ==
    /\ wpc[w] = "loop"
    /\ wnow[w] < wtotal[w]
    /\ wline' = [wline EXCEPT ![w] = "watching"]
    /\ \E ok \in BOOLEAN :
          IF ok
          THEN /\ wnow' = [wnow EXCEPT ![w] = @ + report_interval]
               /\ UNCHANGED <<wpc, wraised, wtotal>>
          ELSE /\ wraised' = [wraised EXCEPT ![w] = TRUE]
               /\ wpc' = [wpc EXCEPT ![w] = "except"]
               /\ wnow' = [wnow EXCEPT ![w] = 0]
               /\ wtotal' = [wtotal EXCEPT ![w] = 0]
    /\ UNCHANGED <<notSched, mainRest, now_jobs, threads, mpc, mjob, waiting_line, chkVars,
                   wtmp, wfin, wincs, wdecs>>

\* _watch(), line 364: the range() is exhausted
W_EndLoop(w) ==
    /\ wpc[w] = "loop"
    /\ ~(wnow[w] < wtotal[w])
    /\ wline' = [wline EXCEPT ![w] = "ending"]
    /\ wpc' = [wpc EXCEPT ![w] = "finishing"]
    /\ wnow' = [wnow EXCEPT ![w] = 0]
    /\ UNCHANGED <<notSched, mainRest, now_jobs, threads, mpc, mjob, waiting_line, chkVars,
                   wtmp, wtotal, wfin, wraised, wincs, wdecs>>

\* _watch(), lines 365-367: one finishing report, which returns or raises
W_Finish(w) ==
    /\ wpc[w] = "finishing"
    /\ wfin[w] < FINISHING_REPORT_TIMES
    /\ \E ok \in BOOLEAN :
          IF ok
          THEN /\ wfin' = [wfin EXCEPT ![w] = @ + 1]
               /\ UNCHANGED <<wpc, wraised, wtotal>>
          ELSE /\ wraised' = [wraised EXCEPT ![w] = TRUE]
               /\ wpc' = [wpc EXCEPT ![w] = "except"]
               /\ wfin' = [wfin EXCEPT ![w] = 0]
               /\ wtotal' = [wtotal EXCEPT ![w] = 0]
    /\ UNCHANGED <<notSched, mainRest, now_jobs, threads, mpc, mjob, waiting_line, chkVars,
                   wtmp, wnow, wline, wincs, wdecs>>

\* _watch(), line 368: the Line is set to the completed state
W_Complete(w) ==
    /\ wpc[w] = "finishing"
    /\ ~(wfin[w] < FINISHING_REPORT_TIMES)
    /\ wline' = [wline EXCEPT ![w] = "completed"]
    /\ wpc' = [wpc EXCEPT ![w] = "dec_load"]
    /\ wfin' = [wfin EXCEPT ![w] = 0]
    /\ wtotal' = [wtotal EXCEPT ![w] = 0]
    /\ UNCHANGED <<notSched, mainRest, now_jobs, threads, mpc, mjob, waiting_line, chkVars,
                   wtmp, wnow, wraised, wincs, wdecs>>

\* W_Except without the finally clause: the handler is the last thing the
\* worker does
W_Except_NoFinally(w) ==
    /\ wpc[w] = "except"
    /\ wline' = [wline EXCEPT ![w] = "error"]
    /\ wpc' = [wpc EXCEPT ![w] = "done"]
    /\ UNCHANGED <<notSched, mainRest, now_jobs, threads, mpc, mjob, waiting_line, chkVars,
                   wtmp, wtotal, wnow, wfin, wraised, wincs, wdecs>>

\* _watch(), lines 369-370: except BaseException writes the error on the
\* worker's own Line
W_Except(w) ==
    /\ wpc[w] = "except"
    /\ wline' = [wline EXCEPT ![w] = "error"]
    /\ wpc' = [wpc EXCEPT ![w] = "dec_load"]
    /\ UNCHANGED <<notSched, mainRest, now_jobs, threads, mpc, mjob, waiting_line, chkVars,
                   wtmp, wtotal, wnow, wfin, wraised, wincs, wdecs>>

\* _watch(), lines 371-372: finally: self._now_jobs -= 1, the load ...
W_DecLoad(w) ==
    /\ wpc[w] = "dec_load"
    /\ wtmp' = [wtmp EXCEPT ![w] = now_jobs]
    /\ wpc' = [wpc EXCEPT ![w] = "dec_store"]
    /\ UNCHANGED <<notSched, mainRest, now_jobs, threads, mpc, mjob, waiting_line, chkVars,
                   wtotal, wnow, wfin, wline, wraised, wincs, wdecs>>

\* ... and the store, after which the target returns and the thread is dead
W_DecStore(w) ==
    /\ wpc[w] = "dec_store"
    /\ now_jobs' = wtmp[w] - 1
    /\ wdecs' = [wdecs EXCEPT ![w] = @ + 1]
    /\ wpc' = [wpc EXCEPT ![w] = "done"]
    /\ wtmp' = [wtmp EXCEPT ![w] = 0]
    /\ UNCHANGED <<notSched, mainRest, threads, mpc, mjob, waiting_line, chkVars,
                   wtotal, wnow, wfin, wline, wraised, wincs>>

(* ====================================================================== *)
(* QiangGuoXianFengAPI._send                                              *)
(* ====================================================================== *)

\* requests raises these when the transport fails; both derive from
\* requests.RequestException, which derives from IOError
TransportErrors == {"ConnectionError", "Timeout"}

\* envelope codes tried: the three the code names and two it does not
Codes == {CODE_SUCCESS, CODE_PERMISSION, CODE_UNAUTHORIZED, 0, 500}

NoResponse(e) == [exc |-> e, status |-> 0, body |-> "none", ctype |-> "none", code |-> 0, data |-> "none"]

\* what one requests.get / requests.post can do: raise, or deliver a status
\* and a body; a body that is a JSON object has a code (ctype: an int, a
\* string or absent) and a data field
Responses ==
    {NoResponse(e) : e \in TransportErrors}
    \cup {[exc |-> "none", status |-> st, body |-> b, ctype |-> "none", code |-> 0, data |-> "none"] :
              st \in {200, 500}, b \in {"not_json", "array"}}
    \cup {[exc |-> "none", status |-> st, body |-> "object", ctype |-> t, code |-> 0, data |-> d] :
              st \in {200, 500}, t \in {"absent", "str"}, d \in {"payload", "None"}}
    \cup {[exc |-> "none", status |-> st, body |-> "object", ctype |-> "int", code |-> c, data |-> d] :
              st \in {200, 500}, c \in Codes, d \in {"payload", "None"}}

Returned(v) == [kind |-> "return", val |-> v]
Raised(e) == [kind |-> "raise", val |-> e]
Pending == [kind |-> "none", val |-> "none"]

\* _send(), lines 61-88: the body of the try block for one response
TryBody(r) ==
    IF r.exc # "none" THEN Raised(r.exc)
    ELSE IF r.status # 200 THEN Raised("RuntimeError:http_status")
    ELSE IF r.body = "not_json" THEN Raised("JSONDecodeError")
    ELSE IF r.body # "object" THEN Raised("RuntimeError:schema")
    ELSE IF r.ctype # "int" THEN Raised("RuntimeError:schema")
    ELSE IF r.code = CODE_SUCCESS THEN Returned(r.data)
    ELSE IF r.code = CODE_PERMISSION THEN Raised("PermissionError")
    ELSE IF r.code = CODE_UNAUTHORIZED THEN Raised("UnauthorizedError")
    ELSE Raised("InvalidRequestError")

\* the API's PermissionError taken for the builtin of that name (an OSError)
IsIOError_Builtin(e) == e \in TransportErrors \cup {"PermissionError"}

\* _send(), line 89: except IOError matches the transport errors only; the
\* API's own classes derive from Exception, RuntimeError and JSONDecodeError
\* are not IOErrors
IsIOError(e) == e \in TransportErrors

\* the loop running once more than the budget
LoopBound_OneMore == s_max_retries + 1

\* _send(), line 59: range(max(1, self._max_retries))
LoopBound == Max(1, s_max_retries)

\* QiangGuoXianFengAPI.__init__, line 51, and the call of _send
SendInit ==
    /\ \E raw \in 0..MaxRetriesBound : s_max_retries = Max(1, raw)
    /\ s_no_retry \in BOOLEAN
    /\ s_pc = "loop"
    /\ s_iter = 0
    /\ s_log = <<>>
    /\ s_exc = "none"
    /\ s_sleeps = 0
    /\ s_result = Pending

\* _send(), lines 59-88: the next iteration issues the request and runs the
\* try block on what comes back
S_Request ==
    /\ s_pc = "loop"
    /\ s_iter < LoopBound
    /\ s_iter' = s_iter + 1
    /\ \E r \in Responses :
          /\ s_log' = Append(s_log, r)
          /\ IF TryBody(r).kind = "return"
             THEN /\ s_result' = TryBody(r)
                  /\ s_pc' = "done"
                  /\ UNCHANGED s_exc
             ELSE /\ s_exc' = TryBody(r).val
                  /\ s_pc' = "except"
                  /\ UNCHANGED s_result
    /\ UNCHANGED <<notSend, s_max_retries, s_no_retry, s_sleeps>>

\* S_Handle with the no_retry test left out
S_Handle_AlwaysRetry ==
    /\ s_pc = "except"
    /\ IF IsIOError(s_exc)
       THEN /\ s_sleeps' = s_sleeps + 1
            /\ s_pc' = "loop"
            /\ UNCHANGED s_result
       ELSE /\ s_result' = Raised(s_exc)
            /\ s_pc' = "done"
            /\ UNCHANGED s_sleeps
    /\ s_exc' = "none"
    /\ UNCHANGED <<notSend, s_max_retries, s_no_retry, s_iter, s_log>>

\* _send(), lines 89-92: a condition raised in the try block either matches
\* except IOError (re-raised under no_retry, slept on otherwise) or leaves
\* _send
S_Handle ==
    /\ s_pc = "except"
    /\ IF IsIOError(s_exc)
       THEN IF s_no_retry
            THEN /\ s_result' = Raised(s_exc)
                 /\ s_pc' = "done"
                 /\ UNCHANGED s_sleeps
            ELSE /\ s_sleeps' = s_sleeps + 1
                 /\ s_pc' = "loop"
                 /\ UNCHANGED s_result
       ELSE /\ s_result' = Raised(s_exc)
            /\ s_pc' = "done"
            /\ UNCHANGED s_sleeps
    /\ s_exc' = "none"
    /\ UNCHANGED <<notSend, s_max_retries, s_no_retry, s_iter, s_log>>

\* _send(), line 93: the range is exhausted
S_Exhausted ==
    /\ s_pc = "loop"
    /\ ~(s_iter < LoopBound)
    /\ s_result' = Raised("RuntimeError:max_retries")
    /\ s_pc' = "done"
    /\ UNCHANGED <<notSend, s_max_retries, s_no_retry, s_iter, s_log, s_exc, s_sleeps>>

(* ====================================================================== *)
(* QiangGuoXianFengAPI._fetch_pagination                                  *)
(* ====================================================================== *)

\* what self._send can give for one page: it raises; it returns something
\* that is not a dict; a dict without the key "list"; a dict whose "list"
\* is not a list; or a dict whose "list" has n items
PageResponses ==
    {[kind |-> k, n |-> 0] : k \in {"raise", "not_dict", "no_list", "not_a_list"}}
    \cup {[kind |-> "list", n |-> n] : n \in 0..MaxPageSize}

\* the items of page number pg when it has n of them
PageItems(pg, n) == [i \in 1..n |-> <<pg, i>>]

\* the test for the last page taken with <= in place of <
ShortPage_Le(n) == n <= p_page_size

\* _fetch_pagination(), line 107: len(li) < page_size
ShortPage(n) == n < p_page_size

\* the loop going one page beyond the limit
PageLoopCond_OneMore == p_page_num <= p_max_page_num + 1

\* _fetch_pagination(), line 98: while page_num <= max_page_num
PageLoopCond == p_page_num <= p_max_page_num

\* _fetch_pagination(), lines 95-97, called with some page_size and
\* max_page_num
PageInit ==
    /\ p_page_size \in 1..MaxPageSize
    /\ p_max_page_num \in 0..MaxPages
    /\ p_pc = "loop"
    /\ p_page_num = 1
    /\ p_rst = <<>>
    /\ p_calls = <<>>
    /\ p_pages = <<>>
    /\ p_result = Pending

\* _fetch_pagination(), lines 98-109: one iteration. The call is made with
\* pageNum and pageSize set; a raise of _send, the failed assert and the
\* KeyError of d["list"] leave the function, a "list" that is not a list and
\* a short page leave the loop
P_Fetch ==
    /\ p_pc = "loop"
    /\ PageLoopCond
    /\ p_calls' = Append(p_calls, [pageNum |-> p_page_num, pageSize |-> p_page_size])
    /\ \E r \in PageResponses :
          /\ p_pages' = Append(p_pages, r)
          /\ CASE r.kind = "raise" ->
                     /\ p_result' = Raised("SendError")
                     /\ p_pc' = "done"
                     /\ UNCHANGED <<p_rst, p_page_num>>
               [] r.kind = "not_dict" ->
                     /\ p_result' = Raised("AssertionError")
                     /\ p_pc' = "done"
                     /\ UNCHANGED <<p_rst, p_page_num>>
               [] r.kind = "no_list" ->
                     /\ p_result' = Raised("KeyError")
                     /\ p_pc' = "done"
                     /\ UNCHANGED <<p_rst, p_page_num>>
               [] r.kind = "not_a_list" ->
                     /\ p_result' = Returned("rst")
                     /\ p_pc' = "done"
                     /\ UNCHANGED <<p_rst, p_page_num>>
               [] r.kind = "list" ->
                     /\ p_rst' = p_rst \o PageItems(p_page_num, r.n)
                     /\ IF ShortPage(r.n)
                        THEN /\ p_result' = Returned("rst")
                             /\ p_pc' = "done"
                             /\ UNCHANGED p_page_num
                        ELSE /\ p_page_num' = p_page_num + 1
                             /\ UNCHANGED <<p_result, p_pc>>
    /\ UNCHANGED <<notPage, p_page_size, p_max_page_num>>

\* _fetch_pagination(), lines 98 and 110: the loop condition fails, rst is
\* returned
P_LimitReached ==
    /\ p_pc = "loop"
    /\ ~PageLoopCond
    /\ p_result' = Returned("rst")
    /\ p_pc' = "done"
    /\ UNCHANGED <<notPage, p_page_size, p_max_page_num, p_page_num, p_rst, p_calls, p_pages>>

(* ====================================================================== *)
(* AutoTrainer._second_to_hhmmss / AutoTrainer._hhmmss_to_second          *)
(* ====================================================================== *)

\* a string is the sequence of its characters
DigitChars == <<"0", "1", "2", "3", "4", "5", "6", "7", "8", "9">>
DigitOf(c) == CHOOSE d \in 0..9 : DigitChars[d + 1] = c

\* str(n) for n >= 0
RECURSIVE Decimal(_)
Decimal(n) ==
    IF n < 10 THEN <<DigitChars[n + 1]>>
    ELSE Decimal(n \div 10) \o <<DigitChars[(n % 10) + 1]>>

\* the format spec :02 - at least two characters, padded with "0"
Fmt02(n) == IF n < 10 THEN <<"0">> \o Decimal(n) ELSE Decimal(n)

\* int(s) for a string of digits
RECURSIVE ParseInt(_)
ParseInt(str) ==
    IF Len(str) = 0 THEN 0
    ELSE 10 * ParseInt(SubSeq(str, 1, Len(str) - 1)) + DigitOf(str[Len(str)])

\* s.split(":")
RECURSIVE Split(_)
Split(str) ==
    IF \A i \in 1..Len(str) : str[i] # ":" THEN <<str>>
    ELSE LET k == CHOOSE i \in 1..Len(str) :
                      str[i] = ":" /\ \A j \in 1..(i - 1) : str[j] # ":"
         IN <<SubSeq(str, 1, k - 1)>> \o Split(SubSeq(str, k + 1, Len(str)))

\* _second_to_hhmmss with the minutes taken from the whole duration
SecondToHhmmss_NoMod(second) ==
    Fmt02(second \div 3600) \o <<":">> \o Fmt02(second \div 60)
        \o <<":">> \o Fmt02(second % 60)

\* _second_to_hhmmss(), lines 255-260; round() leaves an int as it is
SecondToHhmmss(second) ==
    LET h == second \div 3600
        m == (second % 3600) \div 60
        sc == second % 60
    IN Fmt02(h) \o <<":">> \o Fmt02(m) \o <<":">> \o Fmt02(sc)

Units == <<3600, 60, 1>>

RECURSIVE SumTo(_, _)
SumTo(f, k) == IF k = 0 THEN 0 ELSE SumTo(f, k - 1) + f[k]

\* _hhmmss_to_second(), lines 263-267: zip stops at the shorter of units
\* and the parts
HhmmssToSecond(hhmmss) ==
    IF hhmmss = <<>> THEN 0
    ELSE LET parts == Split(hhmmss)
             k == IF Len(parts) < 3 THEN Len(parts) ELSE 3
             products == [i \in 1..k |-> Units[i] * ParseInt(parts[i])]
         IN SumTo(products, k)

\* HH:MM:SS, zero padded, below MaxHours
TwoDigits(n) == <<DigitChars[(n \div 10) + 1], DigitChars[(n % 10) + 1]>>
WellFormed ==
    {TwoDigits(h) \o <<":">> \o TwoDigits(m) \o <<":">> \o TwoDigits(sc) :
        h \in 0..(MaxHours - 1), m \in 0..59, sc \in 0..59}

\* the input: seconds below MaxHours hours, or a well-formed string
ConvInit ==
    /\ c_step = 0
    /\ \/ /\ c_dir = "sec"
          /\ c_in_sec \in 0..(MaxHours * 3600 - 1)
          /\ c_in_str = <<>>
          /\ c_sec = c_in_sec
          /\ c_str = <<>>
       \/ /\ c_dir = "str"
          /\ c_in_str \in WellFormed
          /\ c_in_sec = 0
          /\ c_sec = 0
          /\ c_str = c_in_str

\* _second_to_hhmmss is applied to the seconds at hand
C_ToString ==
    /\ \/ (c_dir = "sec" /\ c_step = 0)
       \/ (c_dir = "str" /\ c_step = 1)
    /\ c_str' = SecondToHhmmss(c_sec)
    /\ c_step' = c_step + 1
    /\ UNCHANGED <<notConv, c_dir, c_in_sec, c_in_str, c_sec>>

\* _hhmmss_to_second is applied to the string at hand
C_ToSecond ==
    /\ \/ (c_dir = "str" /\ c_step = 0)
       \/ (c_dir = "sec" /\ c_step = 1)
    /\ c_sec' = HhmmssToSecond(c_str)
    /\ c_step' = c_step + 1
    /\ UNCHANGED <<notConv, c_dir, c_in_sec, c_in_str, c_str>>

(* ====================================================================== *)
(* TerminalUI / ObservableLine (src/utils/TerminalUI.py)                  *)
(* ====================================================================== *)

\* the threads that call add_line, remove_line, remove_all_lines and write
Callers == {"caller1", "caller2"}
LineIds == 1..NumLines

\* the content of k items handed over by the v-th write to a line (0: by
\* add_line): a (text, color) tuple and a plain str in turn; a text is
\* named by the write and its place
NewContent(v, k) ==
    [i \in 1..k |->
        IF i % 2 = 1 THEN [kind |-> "tuple", v |-> v, i |-> i, color |-> 7]
        ELSE [kind |-> "str", v |-> v, i |-> i, color |-> 0]]

Tok(t, a, b) == [t |-> t, a |-> a, b |-> b]

\* read(), lines 26-30: what one item adds to the string
RenderItem(item) ==
    IF item.kind = "str" THEN <<Tok("text", item.v, item.i)>>
    ELSE <<Tok("sgr", 30 + item.color, 0), Tok("text", item.v, item.i),
           Tok("sgr", 0, 0)>>

\* the string read() returns for a content nobody touches meanwhile
RECURSIVE RenderAll(_)
RenderAll(content) ==
    IF content = <<>> THEN <<>>
    ELSE RenderAll(SubSeq(content, 1, Len(content) - 1))
             \o RenderItem(content[Len(content)])

\* lines 117-118: the list without the line
RECURSIVE Without(_, _)
Without(ls, h) ==
    IF ls = <<>> THEN <<>>
    ELSE IF ls[1] = h THEN SubSeq(ls, 2, Len(ls))
    ELSE <<ls[1]>> \o Without(SubSeq(ls, 2, Len(ls)), h)

Present(ls, h) == \E i \in 1..Len(ls) : ls[i] = h

\* TerminalUI.__init__, lines 75-86: no line, no request, the render thread
\* started, the screen cleared by the constructing thread (_clear takes the
\* condition's lock)
DispInit ==
    /\ d_lines = <<>>
    /\ d_next = 0
    /\ d_lock = "free"
    /\ d_print_requested = FALSE
    /\ d_running = TRUE
    /\ l_content = [l \in LineIds |-> <<>>]
    /\ l_ver = [l \in LineIds |-> 0]
    /\ l_hist = [l \in LineIds |-> {}]
    /\ u_pc = [u \in Callers |-> "idle"]
    /\ r_pc = "top"
    /\ r_notified = FALSE
    /\ r_idx = 0
    /\ r_pos = 0
    /\ r_full = <<>>
    /\ r_out = <<>>
    /\ r_snap = <<>>
    /\ r_detached = FALSE
    /\ r_list = <<>>
    /\ t_last = [by |-> "init", what |-> "clear", op |-> "__init__"]
    /\ g_after_clear = FALSE
    /\ g_sole = 0
    /\ g_gone = {}
    /\ g_late = {}
    /\ g_shown = [l \in LineIds |-> 0]
    /\ x_pc = "idle"

engineVars == <<d_lines, d_next, d_lock, d_print_requested, d_running>>
lineVars == <<l_content, l_ver, l_hist>>
renderVars == <<r_pc, r_notified, r_idx, r_pos, r_full, r_out, r_snap, r_detached, r_list>>
ghostVars == <<g_after_clear, g_sole, g_gone, g_late, g_shown>>

\* _request_print(), lines 164-166, by a thread that holds the lock or has
\* just taken it: the flag is set and notify() wakes the render thread if
\* it waits
RequestPrint ==
    /\ d_print_requested' = TRUE
    /\ r_notified' = (r_notified \/ r_pc = "waiting")

\* _clear(), lines 136-138, called by thread th inside operation op, which
\* holds the lock: the clear sequence is written to the target
ClearBy(th, op) == t_last' = [by |-> th, what |-> "clear", op |-> op]

\* number of writes made so far
RECURSIVE Writes(_)
Writes(l) == IF l = 0 THEN 0 ELSE Writes(l - 1) + l_ver[l]

(* ---- add_line / remove_line / remove_all_lines ---- *)
\* Each runs inside "with self._condition" from its first to its last
\* effect: it starts when the lock is free and no other thread takes a
\* step that needs the lock until it is over

\* U_AddLine that also clears the screen
U_AddLine_Clears(u) ==
    /\ u_pc[u] = "idle"
    /\ d_next < NumLines
    /\ d_lock = "free"
    /\ LET l == d_next + 1
           c == NewContent(0, 1)
       IN /\ l_content' = [l_content EXCEPT ![l] = c]
          /\ l_hist' = [l_hist EXCEPT ![l] = {c}]
          /\ d_lines' = Append(d_lines, l)
          /\ d_next' = l
          /\ g_sole' = IF g_after_clear THEN l ELSE 0
    /\ g_after_clear' = FALSE
    /\ ClearBy(u, "add_line")
    /\ RequestPrint
    /\ UNCHANGED <<notDisp, x_pc, d_lock, d_running, l_ver, u_pc, r_pc, r_idx, r_pos,
                   r_full, r_out, r_snap, r_detached, r_list, g_gone, g_late,
                   g_shown>>

\* add_line(string, color), lines 99-111, the form Main.py uses: the
\* content is the one tuple (line 104); under the lock the line
\* is created (ObservableLine.__init__, lines 17-20) and appended, the
\* repaint requested and the handle returned
U_AddLine(u) ==
    /\ u_pc[u] = "idle"
    /\ d_next < NumLines
    /\ d_lock = "free"
    /\ LET l == d_next + 1
           c == NewContent(0, 1)
       IN /\ l_content' = [l_content EXCEPT ![l] = c]
          /\ l_hist' = [l_hist EXCEPT ![l] = {c}]
          /\ d_lines' = Append(d_lines, l)
          /\ d_next' = l
          /\ g_sole' = IF g_after_clear THEN l ELSE 0
    /\ g_after_clear' = FALSE
    /\ RequestPrint
    /\ UNCHANGED <<notDisp, x_pc, d_lock, d_running, l_ver, u_pc, r_pc, r_idx, r_pos,
                   r_full, r_out, r_snap, r_detached, r_list, t_last, g_gone,
                   g_late, g_shown>>

\* U_RemoveLine with the lines compared by their content
U_RemoveLine_ByContent(u) ==
    /\ u_pc[u] = "idle"
    /\ d_lock = "free"
    /\ \E h \in 1..d_next :
          LET same == {i \in 1..Len(d_lines) : l_content[d_lines[i]] = l_content[h]}
              first == CHOOSE i \in same : \A j \in same : i <= j
          IN /\ IF same # {}
                THEN /\ d_lines' = SubSeq(d_lines, 1, first - 1)
                                       \o SubSeq(d_lines, first + 1, Len(d_lines))
                     /\ RequestPrint
                     /\ g_after_clear' = FALSE
                     /\ g_sole' = 0
                ELSE UNCHANGED <<d_lines, d_print_requested, r_notified,
                                 g_after_clear, g_sole>>
             /\ g_gone' = g_gone \cup {h}
    /\ UNCHANGED <<notDisp, x_pc, d_next, d_lock, d_running, lineVars, u_pc, r_pc,
                   r_idx, r_pos, r_full, r_out, r_snap, r_detached, r_list,
                   t_last, g_late, g_shown>>

\* remove_line(), lines 115-119, under the lock; the handle is one that
\* add_line has returned, on display or not. ObservableLine defines no
\* __eq__: "in" and index() compare the lines by identity
U_RemoveLine(u) ==
    /\ u_pc[u] = "idle"
    /\ d_lock = "free"
    /\ \E h \in 1..d_next :
          /\ IF Present(d_lines, h)
             THEN /\ d_lines' = Without(d_lines, h)
                  /\ RequestPrint
                  /\ g_after_clear' = FALSE
                  /\ g_sole' = 0
             ELSE UNCHANGED <<d_lines, d_print_requested, r_notified,
                              g_after_clear, g_sole>>
          /\ g_gone' = g_gone \cup {h}
    /\ UNCHANGED <<notDisp, x_pc, d_next, d_lock, d_running, lineVars, u_pc, r_pc,
                   r_idx, r_pos, r_full, r_out, r_snap, r_detached, r_list,
                   t_last, g_late, g_shown>>

\* U_RemoveAllLines without self.lines.clear()
U_RemoveAllLines_KeepsLines(u) ==
    /\ u_pc[u] = "idle"
    /\ d_lock = "free"
    /\ ClearBy(u, "remove_all_lines")
    /\ RequestPrint
    /\ g_after_clear' = TRUE
    /\ g_sole' = 0
    /\ g_gone' = 1..d_next
    /\ UNCHANGED <<g_late, g_shown>>
    /\ UNCHANGED <<notDisp, x_pc, d_lines, d_next, d_lock, d_running, lineVars, u_pc,
                   r_pc, r_idx, r_pos, r_full, r_out, r_snap, r_detached, r_list>>

\* remove_all_lines(), lines 123-126, under the lock: the list is emptied,
\* the calling thread itself writes the clear sequence to the terminal
\* (_clear, lines 136-138) and the repaint is requested
U_RemoveAllLines(u) ==
    /\ u_pc[u] = "idle"
    /\ d_lock = "free"
    /\ d_lines' = <<>>
    /\ ClearBy(u, "remove_all_lines")
    /\ RequestPrint
    /\ g_after_clear' = TRUE
    /\ g_sole' = 0
    /\ g_gone' = 1..d_next
    /\ UNCHANGED <<g_late, g_shown>>
    /\ UNCHANGED <<notDisp, x_pc, d_next, d_lock, d_running, lineVars, u_pc, r_pc,
                   r_idx, r_pos, r_full, r_out, r_snap, r_detached, r_list>>

(* ---- ObservableLine.write ---- *)

\* the render thread is iterating over the content of line h (the for
\* loop of read(), line 25)
Reading(h) == r_pc = "read" /\ r_idx <= Len(d_lines) /\ d_lines[r_idx] = h

\* the values _content has had while the repaint in progress, if any,
\* went on, the new value included
Kept(h, new) == IF r_pc \in {"read", "write"} THEN l_hist[h] \cup {new} ELSE {new}

\* U_WriteContent with a replacement made inside the list object the line
\* already has
U_WriteContent_InPlace(u) ==
    /\ u_pc[u] = "idle"
    /\ \E h \in 1..d_next, k \in 1..MaxItems, app \in BOOLEAN :
          LET c == NewContent(l_ver[h] + 1, k)
              new == IF app THEN l_content[h] \o c ELSE c
          IN /\ Writes(NumLines) < MaxWrites
             /\ l_content' = [l_content EXCEPT ![h] = new]
             /\ l_ver' = [l_ver EXCEPT ![h] = @ + 1]
             /\ l_hist' = [l_hist EXCEPT ![h] = Kept(h, new)]
             /\ g_late' = IF h \in g_gone THEN g_late \cup {h} ELSE g_late
             /\ UNCHANGED <<r_detached, r_list>>
    /\ u_pc' = [u_pc EXCEPT ![u] = "w_signal"]
    /\ UNCHANGED <<notDisp, x_pc, engineVars, r_pc, r_notified, r_idx, r_pos, r_full,
                   r_out, r_snap, t_last, g_after_clear, g_sole, g_gone, g_shown>>

\* write(), lines 46-59, with no lock held: the new list is built, then
\* either the line's list is extended in place (one atomic list.extend,
\* seen by an iterator that is still running) or _content is bound to the
\* new list (an iterator that is running keeps the list it started on).
\* Nothing in the program reads _changed, which is left out
U_WriteContent(u) ==
    /\ u_pc[u] = "idle"
    /\ \E h \in 1..d_next, k \in 1..MaxItems, app \in BOOLEAN :
          LET c == NewContent(l_ver[h] + 1, k)
              new == IF app THEN l_content[h] \o c ELSE c
          IN /\ Writes(NumLines) < MaxWrites
             /\ l_content' = [l_content EXCEPT ![h] = new]
             /\ l_ver' = [l_ver EXCEPT ![h] = @ + 1]
             /\ l_hist' = [l_hist EXCEPT ![h] = Kept(h, new)]
             /\ g_late' = IF h \in g_gone THEN g_late \cup {h} ELSE g_late
             /\ IF ~app /\ Reading(h) /\ ~r_detached
                THEN /\ r_detached' = TRUE
                     /\ r_list' = l_content[h]
                ELSE UNCHANGED <<r_detached, r_list>>
    /\ u_pc' = [u_pc EXCEPT ![u] = "w_signal"]
    /\ UNCHANGED <<notDisp, x_pc, engineVars, r_pc, r_notified, r_idx, r_pos, r_full,
                   r_out, r_snap, t_last, g_after_clear, g_sole, g_gone, g_shown>>

\* write(), line 60: on_change is _request_print, which takes the lock,
\* sets the flag, notifies and releases
U_WriteSignal(u) ==
    /\ u_pc[u] = "w_signal"
    /\ d_lock = "free"
    /\ RequestPrint
    /\ u_pc' = [u_pc EXCEPT ![u] = "idle"]
    /\ UNCHANGED <<notDisp, x_pc, d_lines, d_next, d_lock, d_running, lineVars,
                   r_pc, r_idx, r_pos, r_full, r_out, r_snap, r_detached, r_list,
                   t_last, ghostVars>>

(* ---- the render thread: _loop and _print ---- *)

\* R_Enter with the flag reset at the top of the loop
R_Enter_ResetsFlag ==
    /\ r_pc = "top"
    /\ IF d_running
       THEN /\ d_lock = "free"
            /\ d_lock' = "render"
            /\ d_print_requested' = FALSE
            /\ r_pc' = "check"
       ELSE /\ r_pc' = "exit"
            /\ UNCHANGED <<d_lock, d_print_requested>>
    /\ UNCHANGED <<notDisp, x_pc, d_lines, d_next, d_running,
                   lineVars, u_pc, r_notified, r_idx, r_pos, r_full, r_out,
                   r_snap, r_detached, r_list, t_last, ghostVars>>

\* _loop(), lines 141-142: the loop test, then the lock is taken
R_Enter ==
    /\ r_pc = "top"
    /\ IF d_running
       THEN /\ d_lock = "free"
            /\ d_lock' = "render"
            /\ r_pc' = "check"
       ELSE /\ r_pc' = "exit"
            /\ UNCHANGED d_lock
    /\ UNCHANGED <<notDisp, x_pc, d_lines, d_next, d_print_requested, d_running,
                   lineVars, u_pc, r_notified, r_idx, r_pos, r_full, r_out,
                   r_snap, r_detached, r_list, t_last, ghostVars>>

\* _loop(), lines 143-146, holding the lock: wait() gives the lock up, a
\* pending request or the shutdown ends the with block
R_Check ==
    /\ r_pc = "check"
    /\ d_lock = "render"
    /\ d_lock' = "free"
    /\ r_notified' = FALSE
    /\ r_pc' = IF ~d_print_requested /\ d_running THEN "waiting"
               ELSE IF ~d_running THEN "exit"
               ELSE "reset"
    /\ UNCHANGED <<notDisp, x_pc, d_lines, d_next, d_print_requested, d_running,
                   lineVars, u_pc, r_idx, r_pos, r_full, r_out, r_snap,
                   r_detached, r_list, t_last, ghostVars>>

\* _loop(), line 144: wait() returns once notified and the lock is free
R_Wake ==
    /\ r_pc = "waiting"
    /\ r_notified
    /\ d_lock = "free"
    /\ d_lock' = "render"
    /\ r_notified' = FALSE
    /\ r_pc' = "check"
    /\ UNCHANGED <<notDisp, x_pc, d_lines, d_next, d_print_requested, d_running,
                   lineVars, u_pc, r_idx, r_pos, r_full, r_out, r_snap,
                   r_detached, r_list, t_last, ghostVars>>

\* _loop(), line 148: the flag is reset after the lock was released
R_Reset ==
    /\ r_pc = "reset"
    /\ d_print_requested' = FALSE
    /\ r_pc' = "print"
    /\ UNCHANGED <<notDisp, x_pc, d_lines, d_next, d_lock, d_running, lineVars,
                   u_pc, r_notified, r_idx, r_pos, r_full, r_out, r_snap,
                   r_detached, r_list, t_last, ghostVars>>

\* _print(), lines 152-155: the lock is taken, the walk over self.lines
\* starts and with it the read() of the first line
R_PrintEnter ==
    /\ r_pc = "print"
    /\ d_lock = "free"
    /\ d_lock' = "render"
    /\ r_snap' = d_lines
    /\ r_out' = <<>>
    /\ r_idx' = 1
    /\ r_pos' = 0
    /\ r_full' = <<>>
    /\ r_pc' = "read"
    /\ UNCHANGED <<notDisp, x_pc, d_lines, d_next, d_print_requested, d_running,
                   lineVars, u_pc, r_notified, r_detached, r_list, t_last,
                   ghostVars>>

\* the list object the for loop of read() walks
IterList == IF r_detached THEN r_list ELSE l_content[d_lines[r_idx]]

\* read(), lines 25-30: the next item is added to the string
R_ReadItem ==
    /\ r_pc = "read"
    /\ r_idx <= Len(d_lines)
    /\ r_pos < Len(IterList)
    /\ r_full' = r_full \o RenderItem(IterList[r_pos + 1])
    /\ r_pos' = r_pos + 1
    /\ UNCHANGED <<notDisp, x_pc, engineVars, lineVars, u_pc, r_pc, r_notified, r_idx,
                   r_out, r_snap, r_detached, r_list, t_last, ghostVars>>

\* R_ReadEnd with the string put in front of output_lines
R_ReadEnd_Prepends ==
    /\ r_pc = "read"
    /\ r_idx <= Len(d_lines)
    /\ r_pos >= Len(IterList)
    /\ r_out' = <<r_full>> \o r_out
    /\ r_idx' = r_idx + 1
    /\ r_pos' = 0
    /\ r_full' = <<>>
    /\ r_detached' = FALSE
    /\ r_list' = <<>>
    /\ UNCHANGED <<notDisp, x_pc, engineVars, lineVars, u_pc, r_pc, r_notified,
                   r_snap, t_last, ghostVars>>

\* read(), lines 25 and 34-36, and _print(), line 156: the list has no
\* further item, the string is returned and kept in output_lines; the walk
\* goes on to the next line. Nothing in the program reads _changed and
\* _last_read, which are left out
R_ReadEnd ==
    /\ r_pc = "read"
    /\ r_idx <= Len(d_lines)
    /\ r_pos >= Len(IterList)
    /\ r_out' = Append(r_out, r_full)
    /\ r_idx' = r_idx + 1
    /\ r_pos' = 0
    /\ r_full' = <<>>
    /\ r_detached' = FALSE
    /\ r_list' = <<>>
    /\ UNCHANGED <<notDisp, x_pc, engineVars, lineVars, u_pc, r_pc, r_notified,
                   r_snap, t_last, ghostVars>>

\* _print(), lines 157-159: every line is read; the render thread clears
\* the terminal
R_Clear ==
    /\ r_pc = "read"
    /\ r_idx > Len(d_lines)
    /\ ClearBy("render", "_print")
    /\ r_pc' = "write"
    /\ UNCHANGED <<notDisp, x_pc, engineVars, lineVars, u_pc, r_notified, r_idx, r_pos,
                   r_full, r_out, r_snap, r_detached, r_list, ghostVars>>

\* the latest write whose text is in a string
VersionOf(str) ==
    LET vs == {str[i].a : i \in {j \in 1..Len(str) : str[j].t = "text"}}
    IN IF vs = {} THEN 0 ELSE CHOOSE v \in vs : \A w \in vs : w <= v

\* _print(), lines 160-161: home, the joined strings, erase to the end of
\* the screen; the lock is released and _loop goes round
R_Write ==
    /\ r_pc = "write"
    /\ t_last' = [by |-> "render", what |-> "full", op |-> "_print"]
    /\ d_lock' = "free"
    /\ r_out' = <<>>
    /\ r_snap' = <<>>
    /\ r_idx' = 0
    /\ r_pc' = "top"
    /\ l_hist' = [l \in LineIds |-> IF l <= d_next THEN {l_content[l]} ELSE {}]
    /\ g_shown' = [l \in LineIds |->
                      IF \E i \in 1..Len(r_out) : r_snap[i] = l
                      THEN Max(g_shown[l],
                               VersionOf(r_out[CHOOSE i \in 1..Len(r_out) : r_snap[i] = l]))
                      ELSE g_shown[l]]
    /\ UNCHANGED <<notDisp, x_pc, d_lines, d_next, d_print_requested, d_running,
                   l_content, l_ver, u_pc, r_notified, r_pos, r_full,
                   r_detached, r_list, g_after_clear, g_sole, g_gone, g_late>>

(* ---- dispose ---- *)

\* dispose(), line 130: the flag is cleared, with no lock held
X_SetFlag ==
    /\ x_pc = "idle"
    /\ d_running' = FALSE
    /\ x_pc' = "flagged"
    /\ UNCHANGED <<notDisp, d_lines, d_next, d_lock, d_print_requested,
                   lineVars, u_pc, renderVars, t_last, ghostVars>>

\* X_Notify with nobody woken
X_Notify_Silent ==
    /\ x_pc = "flagged"
    /\ d_lock = "free"
    /\ x_pc' = "notified"
    /\ UNCHANGED <<notDisp, engineVars, lineVars, u_pc, renderVars, t_last,
                   ghostVars>>

\* dispose(), lines 131-132: under the lock, notify_all() wakes the render
\* thread if it waits
X_Notify ==
    /\ x_pc = "flagged"
    /\ d_lock = "free"
    /\ r_notified' = (r_notified \/ r_pc = "waiting")
    /\ x_pc' = "notified"
    /\ UNCHANGED <<notDisp, engineVars, lineVars, u_pc, r_pc, r_idx, r_pos,
                   r_full, r_out, r_snap, r_detached, r_list, t_last, ghostVars>>

\* dispose(), line 133: join() returns once the render thread has ended
X_Join ==
    /\ x_pc = "notified"
    /\ r_pc \in {"exit", "dead"}
    /\ x_pc' = "returned"
    /\ UNCHANGED <<notDisp, engineVars, lineVars, u_pc, renderVars, t_last,
                   ghostVars>>

(* ---- target.write / target.flush raising ---- *)
\* TerminalUI has no try statement: what the target raises leaves the
\* with blocks (the lock is released) and goes up the calling thread

\* remove_all_lines(), lines 123-125: the list is emptied, then the write
\* or the flush inside _clear (lines 137-138) raises; line 126 is not
\* reached and the caller gets the exception
U_RemoveAllLines_Raises(u) ==
    /\ u_pc[u] = "idle"
    /\ d_lock = "free"
    /\ d_lines' = <<>>
    /\ t_last' = [by |-> u, what |-> "failed", op |-> "remove_all_lines"]
    /\ u_pc' = [u_pc EXCEPT ![u] = "raised"]
    /\ g_after_clear' = TRUE
    /\ g_sole' = 0
    /\ g_gone' = 1..d_next
    /\ UNCHANGED <<notDisp, x_pc, d_next, d_lock, d_print_requested, d_running,
                   lineVars, renderVars, g_late, g_shown>>

\* the exception leaves _print and _loop (lines 149 and 140): the render
\* thread ends
RenderDies(op) ==
    /\ t_last' = [by |-> "render", what |-> "failed", op |-> op]
    /\ d_lock' = "free"
    /\ r_pc' = "dead"
    /\ r_out' = <<>>
    /\ r_snap' = <<>>
    /\ r_idx' = 0
    /\ l_hist' = [l \in LineIds |-> IF l <= d_next THEN {l_content[l]} ELSE {}]
    /\ UNCHANGED <<notDisp, x_pc, d_lines, d_next, d_print_requested, d_running,
                   l_content, l_ver, u_pc, r_notified, r_pos, r_full,
                   r_detached, r_list, ghostVars>>

\* _print(), line 159: the write or the flush inside _clear raises
R_ClearRaises ==
    /\ r_pc = "read"
    /\ r_idx > Len(d_lines)
    /\ RenderDies("_clear")

\* _print(), lines 160-161: target.write(full) or target.flush() raises
R_WriteRaises ==
    /\ r_pc = "write"
    /\ RenderDies("_print")

(* ====================================================================== *)
(* AutoTrainer.auto_login / manual_login, QiangGuoXianFengAPI.login       *)
(* ====================================================================== *)

\* how a _send call ends for its caller (lines 61-94): the payload is
\* returned, or one of the three API conditions, or RuntimeError (status,
\* schema, retries exhausted); an IOError comes out only with no_retry
SendOutcomes(no_retry) ==
    {"data", "permission", "unauthorized", "invalid", "runtime"}
        \cup (IF no_retry THEN {"ioerror"} ELSE {})

\* one _send call: every request carries self._headers (line 69)
Call(op, token, out) == [op |-> op, token |-> token, out |-> out]

\* __main__, lines 581-585: the session is new, nothing in the headers but
\* the user agent
LoginInit ==
    /\ k_pc = "start"
    /\ k_token = "none"
    /\ k_calls = <<>>
    /\ k_failed = 0

\* auto_login(), lines 276-279: no base URL or token is stored
K_NoStored ==
    /\ k_pc = "start"
    /\ k_pc' = "prompt"
    /\ UNCHANGED <<notLogin, k_token, k_calls, k_failed>>

\* auto_login(), lines 281-284 and 297-303: get_user_info(token) puts the
\* stored token into the headers (lines 136-137) and asks the server; the
\* two conditions caught make auto_login return False, any other leaves it
K_AutoCall ==
    /\ k_pc = "start"
    /\ k_token' = "stored"
    /\ \E o \in SendOutcomes(FALSE) :
          /\ k_calls' = Append(k_calls, Call("get_user_info", "stored", o))
          /\ k_pc' = IF o = "data" THEN "ask"
                     ELSE IF o \in {"invalid", "unauthorized"} THEN "prompt"
                     ELSE "terminated"
    /\ UNCHANGED <<notLogin, k_failed>>

\* auto_login(), lines 286-295 and 301-303: the user keeps the account
\* (True is returned) or has it forgotten (the stored connection is
\* emptied, False is returned)
K_Answer ==
    /\ k_pc = "ask"
    /\ \E keep \in BOOLEAN : k_pc' = IF keep THEN "auto_ok" ELSE "prompt"
    /\ UNCHANGED <<notLogin, k_token, k_calls, k_failed>>

\* the rounds of the loop begun so far
Rounds == Cardinality({j \in 1..Len(k_calls) : k_calls[j].op = "get_captcha"})

\* manual_login(), lines 306-326 and 331-334: account and password are
\* read, get_captcha is called; the two conditions caught add the failure
\* line and the loop goes round
K_Captcha ==
    /\ k_pc = "prompt"
    /\ Rounds < MaxLogins
    /\ \E o \in SendOutcomes(FALSE) :
          /\ k_calls' = Append(k_calls, Call("get_captcha", k_token, o))
          /\ k_pc' = IF o = "data" THEN "login"
                     ELSE IF o \in {"permission", "invalid"} THEN "prompt"
                     ELSE "terminated"
          /\ k_failed' = IF o \in {"permission", "invalid"} THEN k_failed + 1
                         ELSE k_failed
    /\ UNCHANGED <<notLogin, k_token>>

\* manual_login(), lines 328-334, and login(), lines 121-133: one request
\* (no_retry); the token of the answer is put into the headers (line 132)
\* and the loop is left (line 330), or the condition raised by _send goes
\* through login() to the except clauses of manual_login
K_Login ==
    /\ k_pc = "login"
    /\ \E o \in SendOutcomes(TRUE) :
          /\ k_calls' = Append(k_calls, Call("login", k_token, o))
          /\ k_token' = IF o = "data" THEN "new" ELSE k_token
          /\ k_pc' = IF o = "data" THEN "in"
                     ELSE IF o \in {"permission", "invalid"} THEN "prompt"
                     ELSE "terminated"
          /\ k_failed' = IF o \in {"permission", "invalid"} THEN k_failed + 1
                         ELSE k_failed
    /\ UNCHANGED notLogin

\* a call made after manual_login has returned (get_lesson_list and the
\* like): it carries the headers as they are
K_Later ==
    /\ k_pc = "in"
    /\ \E o \in SendOutcomes(FALSE) :
          k_calls' = Append(k_calls, Call("later", k_token, o))
    /\ k_pc' = "used"
    /\ UNCHANGED <<notLogin, k_token, k_failed>>

(* ====================================================================== *)
(* input_validated_number                                                 *)
(* ====================================================================== *)

\* a value of type int or float: a number, or the float nan
Num(n) == [nan |-> FALSE, n |-> n]
NaN == [nan |-> TRUE, n |-> 0]

\* a < b and a > b as Python evaluates them: False whenever nan is compared
Lt(a, b) == ~a.nan /\ ~b.nan /\ a.n < b.n
Gt(a, b) == ~a.nan /\ ~b.nan /\ a.n > b.n

\* the arguments of a call; max_val is None where has_max is FALSE
Site(type, default_val, min_val, has_max, max_val) ==
    [type |-> type, default_val |-> Num(default_val), min_val |-> Num(min_val),
     has_max |-> has_max, max_val |-> Num(max_val)]

\* the calls of __main__, lines 642-647 (max_jobs, pass_score,
\* submit_interval), each also with the other input_type
Sites ==
    {Site(t, 5, 1, TRUE, 20) : t \in {"int", "float"}}
        \cup {Site(t, 60, 0, FALSE, 0) : t \in {"int", "float"}}
        \cup {Site(t, 3, 0, FALSE, 0) : t \in {"int", "float"}}

\* the characters typed
InputChars == {"0", "1", "2", "5", "-", "n", "a"}

RECURSIVE Strings(_)
Strings(len) ==
    IF len = 0 THEN {<<>>}
    ELSE LET shorter == Strings(len - 1)
         IN shorter \cup {Append(t, c) : t \in {x \in shorter : Len(x) = len - 1},
                                         c \in InputChars}

IsDigits(str) ==
    /\ Len(str) > 0
    /\ \A j \in 1..Len(str) : \E d \in 1..10 : DigitChars[d] = str[j]

\* input_type(input_str), line 563: int() and float() take an optional
\* sign and decimal digits; float() also takes "nan"; anything else made
\* of these characters raises ValueError
ParseNumber(type, str) ==
    LET neg == Len(str) > 0 /\ str[1] = "-"
        body == IF neg THEN SubSeq(str, 2, Len(str)) ELSE str
    IN IF IsDigits(body)
       THEN [ok |-> TRUE,
             val |-> Num(IF neg THEN 0 - ParseInt(body) ELSE ParseInt(body))]
       ELSE IF type = "float" /\ body = <<"n", "a", "n">>
       THEN [ok |-> TRUE, val |-> NaN]
       ELSE [ok |-> FALSE, val |-> Num(0)]

\* a call with its arguments and the line input() is going to return
InputInit ==
    /\ i_pc = "read"
    /\ i_site \in Sites
    /\ i_text \in Strings(MaxInputLen)
    /\ i_val = Num(0)
    /\ i_result = Num(0)

\* lines 560-563 and 571-573: an empty line, or one input_type() rejects
\* (the bare except), gives the default; otherwise input_val is bound
I_Convert ==
    /\ i_pc = "read"
    /\ LET p == ParseNumber(i_site.type, i_text)
       IN IF i_text # <<>> /\ p.ok
          THEN /\ i_val' = p.val
               /\ i_pc' = "check"
               /\ UNCHANGED i_result
          ELSE /\ i_result' = i_site.default_val
               /\ i_pc' = "returned"
               /\ UNCHANGED i_val
    /\ UNCHANGED <<notInput, i_site, i_text>>

\* lines 564-569 and 572-573: below min_val or above max_val gives the
\* default, otherwise input_type(input_val) is returned
I_Validate ==
    /\ i_pc = "check"
    /\ i_result' = IF Lt(i_val, i_site.min_val) THEN i_site.default_val
                   ELSE IF i_site.has_max /\ Gt(i_val, i_site.max_val)
                   THEN i_site.default_val
                   ELSE i_val
    /\ i_pc' = "returned"
    /\ UNCHANGED <<notInput, i_site, i_text, i_val>>

(* ====================================================================== *)
(* AutoTrainer._watch: the reports of one worker, Randomness.about        *)
(* ====================================================================== *)
\* A position on the way from range() to _second_to_hhmmss is a float; it
\* is kept in quarters of a second

\* (random.random() - 0.5) * 2.0 * max_noise with max_noise = 1.0, lines
\* 14 and 17 of Randomness.py: a value in [-1, 1)
Noises == -4..3

\* Randomness.about with max_noise = 2.0 and no max_value
About_Wide(base, noise, max_value) == Max(4 * base + 2 * noise, 0)

\* Randomness.about(base, max_value=max_value), lines 15-22 of
\* Randomness.py, with min_value = 0.0
About(base, noise, max_value) ==
    LET value == 4 * base + noise
        low == Max(value, 0)
    IN IF low <= 4 * max_value THEN low ELSE 4 * max_value

\* round(), line 256: to the nearest integer, a half to the even one
PyRound(q) ==
    LET f == q \div 4
        r == q % 4
    IN IF r < 2 THEN f
       ELSE IF r > 2 THEN f + 1
       ELSE IF f % 2 = 0 THEN f ELSE f + 1

\* resource_time / resourceDuration as get_resource_detail gives them
TimeStrings == {<<>>} \cup {SecondToHhmmss(n) : n \in 0..MaxClock}

\* a write to the worker's Line or a call of set_resource_progress
Event(ev, tick, time) == [ev |-> ev, tick |-> tick, time |-> time]

\* _watch is called (lines 385-389) with the strings of the resource
WatchInit ==
    /\ v_pc = "start"
    /\ v_start_time \in TimeStrings
    /\ v_total_time \in TimeStrings
    /\ v_interval \in 0..MaxStep
    /\ v_start = 0
    /\ v_total = 0
    /\ v_next = 0
    /\ v_fin = 0
    /\ v_log = <<>>
    /\ v_raised = FALSE

\* lines 352-356: the Line is added, start and total are parsed
V_Parse ==
    /\ v_pc = "start"
    /\ v_start' = HhmmssToSecond(v_start_time)
    /\ v_total' = HhmmssToSecond(v_total_time)
    /\ v_log' = Append(v_log, Event("preparing", 0, <<>>))
    /\ v_pc' = "range"
    /\ UNCHANGED <<notWatch, v_start_time, v_total_time, v_interval, v_next,
                   v_fin, v_raised>>

\* line 357: range(start, total, step) raises ValueError for step 0
V_Range ==
    /\ v_pc = "range"
    /\ IF v_interval = 0
       THEN /\ v_raised' = TRUE
            /\ v_pc' = "except"
            /\ UNCHANGED v_next
       ELSE /\ v_next' = v_start
            /\ v_pc' = "loop"
            /\ UNCHANGED v_raised
    /\ UNCHANGED <<notWatch, v_start_time, v_total_time, v_interval, v_start,
                   v_total, v_fin, v_log>>

\* lines 357-363, one round of the loop: every tick but the first is
\* perturbed, the Line is written (two writes, one text), then the
\* position is reported; set_resource_progress returns or raises
V_Tick ==
    /\ v_pc = "loop"
    /\ v_next < v_total
    /\ \E noise \in Noises, ok \in BOOLEAN :
          LET now == IF v_next # v_start THEN About(v_next, noise, v_total)
                     ELSE 4 * v_next
              now_time == SecondToHhmmss(PyRound(now))
          IN IF ok
             THEN /\ v_log' = v_log \o <<Event("line", v_next, now_time),
                                          Event("report", v_next, now_time)>>
                  /\ v_next' = v_next + v_interval
                  /\ UNCHANGED <<v_pc, v_raised>>
             ELSE /\ v_log' = v_log \o <<Event("line", v_next, now_time),
                                          Event("failed", v_next, now_time)>>
                  /\ v_raised' = TRUE
                  /\ v_pc' = "except"
                  /\ UNCHANGED v_next
    /\ UNCHANGED <<notWatch, v_start_time, v_total_time, v_interval, v_start,
                   v_total, v_fin>>

\* lines 357 and 364: range() is exhausted, the Line says the watching is
\* being ended
V_EndLoop ==
    /\ v_pc = "loop"
    /\ v_next >= v_total
    /\ v_log' = Append(v_log, Event("closing", 0, <<>>))
    /\ v_pc' = "finish"
    /\ UNCHANGED <<notWatch, v_start_time, v_total_time, v_interval, v_start,
                   v_total, v_next, v_fin, v_raised>>

\* lines 365-367: one finishing report, carrying total_time as it came;
\* set_resource_progress returns or raises
V_Finish ==
    /\ v_pc = "finish"
    /\ v_fin < FINISHING_REPORT_TIMES
    /\ \E ok \in BOOLEAN :
          IF ok
          THEN /\ v_log' = Append(v_log, Event("finish", 0, v_total_time))
               /\ v_fin' = v_fin + 1
               /\ UNCHANGED <<v_pc, v_raised>>
          ELSE /\ v_log' = Append(v_log, Event("failed", 0, v_total_time))
               /\ v_raised' = TRUE
               /\ v_pc' = "except"
               /\ UNCHANGED v_fin
    /\ UNCHANGED <<notWatch, v_start_time, v_total_time, v_interval, v_start,
                   v_total, v_next>>

\* line 368: the Line is set to the completed state
V_Complete ==
    /\ v_pc = "finish"
    /\ v_fin = FINISHING_REPORT_TIMES
    /\ v_log' = Append(v_log, Event("completed", 0, <<>>))
    /\ v_pc' = "done"
    /\ UNCHANGED <<notWatch, v_start_time, v_total_time, v_interval, v_start,
                   v_total, v_next, v_fin, v_raised>>

\* lines 369-370: the handler writes the error to the Line
V_Except ==
    /\ v_pc = "except"
    /\ v_log' = Append(v_log, Event("error", 0, <<>>))
    /\ v_pc' = "done"
    /\ UNCHANGED <<notWatch, v_start_time, v_total_time, v_interval, v_start,
                   v_total, v_next, v_fin, v_raised>>

(* ====================================================================== *)
(* AutoTrainer.do_lesson_exam_all                                         *)
(* ====================================================================== *)

\* an e["maxScore"] of the list, a score do_exam returns, a pass_score
Scores == 0..MaxScore

\* do_lesson_exam_all is called, lines 466-469: the list of exams is there
ExamInit ==
    /\ e_pc = "list"
    /\ e_pass \in Scores
    /\ e_max_retries \in 0..MaxAttempts
    /\ e_left \in 0..MaxExams
    /\ e_best = 0
    /\ e_i = 0
    /\ e_scores = <<>>
    /\ e_lines = <<>>

\* lines 470-472 and 485-486: the next exam of the list; one whose best
\* score has reached pass_score is skipped
E_NextExam ==
    /\ e_pc = "list"
    /\ e_left > 0
    /\ \E best \in Scores :
          /\ e_best' = best
          /\ IF best < e_pass
             THEN /\ e_lines' = <<"header">>
                  /\ e_pc' = "loop"
                  /\ UNCHANGED e_left
             ELSE /\ e_lines' = <<"header", "skipped_passed">>
                  /\ e_left' = e_left - 1
                  /\ UNCHANGED e_pc
    /\ e_i' = 0
    /\ e_scores' = <<>>
    /\ UNCHANGED <<notExam, e_pass, e_max_retries>>

\* lines 473-483, one round of the for loop: the exam is started and done
\* (either call may raise, nothing in do_lesson_exam_all catches it), the
\* score is compared with pass_score; a score that reaches it breaks
E_Attempt ==
    /\ e_pc = "loop"
    /\ e_i < e_max_retries
    /\ \/ /\ e_lines' = Append(e_lines, "attempt")
          /\ e_pc' = "raised"
          /\ UNCHANGED <<e_i, e_scores>>
       \/ \E score \in Scores :
             /\ e_scores' = Append(e_scores, score)
             /\ IF score >= e_pass
                THEN /\ e_lines' = e_lines \o <<"attempt", "passed">>
                     /\ e_pc' = "after"
                     /\ UNCHANGED e_i
                ELSE /\ e_lines' = e_lines \o <<"attempt", "failed">>
                     /\ e_i' = e_i + 1
                     /\ UNCHANGED e_pc
    /\ UNCHANGED <<notExam, e_pass, e_max_retries, e_left, e_best>>

\* line 473: range(max_retries) is exhausted
E_LoopEnd ==
    /\ e_pc = "loop"
    /\ ~(e_i < e_max_retries)
    /\ e_pc' = "after"
    /\ UNCHANGED <<notExam, e_pass, e_max_retries, e_left, e_best, e_i,
                   e_scores, e_lines>>

\* line 484, the statement after the for loop: the "skipped, the maximum
\* number of attempts was reached" line is added
E_AfterLoop ==
    /\ e_pc = "after"
    /\ e_lines' = Append(e_lines, "skipped_max")
    /\ e_left' = e_left - 1
    /\ e_pc' = "list"
    /\ UNCHANGED <<notExam, e_pass, e_max_retries, e_best, e_i, e_scores>>

\* lines 487-488: the list is through
E_Return ==
    /\ e_pc = "list"
    /\ e_left = 0
    /\ e_pc' = "done"
    /\ UNCHANGED <<notExam, e_pass, e_max_retries, e_left, e_best, e_i,
                   e_scores, e_lines>>

(* ====================================================================== *)
(* AutoTrainer.do_exam: the answer memory, Question.py                    *)
(* ====================================================================== *)
\* A kv table is a function from keys (strings) to records; "absent" in a
\* field stands for a key the record does not have, "None" for None / null

Qids == 0..MaxQid

\* str(obj.id), lines 44 and 141 of Question.py
KeyOf(id) == DigitChars[id + 1]

\* int(k), lines 40 and 128 of Question.py
IdOf(k) == DigitOf(k)

EmptyTable == [k \in {} |-> "None"]

\* dict[key] = value
Put(table, key, value) ==
    [k \in DOMAIN table \cup {key} |-> IF k = key THEN value ELSE table[k]]

\* table.items(); the keys of a table are the str() of different ids, and
\* the list made of them is sorted by id before it is used
RECURSIVE Items(_, _)
Items(table, keys) ==
    IF keys = {} THEN <<>>
    ELSE LET k == CHOOSE x \in keys : \A y \in keys : IdOf(x) <= IdOf(y)
         IN <<k>> \o Items(table, keys \ {k})

\* v.get(name): None for a key the record does not have
Get(value) == IF value = "absent" THEN "None" ELSE value

\* Answer.load_from_web_data, line 36 of Question.py
AnswerFromWeb(data) == [id |-> data.answerId, title |-> data.answerTitle]

\* Answer.load_from_kv_table, line 40 of Question.py
AnswerLoadFromKvTable(table) ==
    LET ks == Items(table, DOMAIN table)
    IN [j \in 1..Len(ks) |-> [id |-> IdOf(ks[j]), title |-> table[ks[j]].title]]

\* Answer.dump_to_kv_table, line 44 of Question.py
RECURSIVE AnswerDumpToKvTable(_)
AnswerDumpToKvTable(array) ==
    IF array = <<>> THEN EmptyTable
    ELSE LET obj == array[Len(array)]
         IN Put(AnswerDumpToKvTable(SubSeq(array, 1, Len(array) - 1)),
                KeyOf(obj.id), [title |-> obj.title])

\* Question.load_from_web_data, lines 115-122 of Question.py
LoadFromWebData(data) ==
    [id |-> data.questionId,
     title |-> data.questionTitle,
     type |-> data.questionType,
     answers |-> [j \in 1..Len(data.answerList) |-> AnswerFromWeb(data.answerList[j])],
     right_answer |-> Get(data.rightAnswer),
     stage_id |-> "None"]

\* one Question of Question.load_from_kv_table, lines 127-134 of Question.py
LoadRecord(k, v) ==
    [id |-> IdOf(k),
     title |-> v.title,
     type |-> v.type,
     answers |-> AnswerLoadFromKvTable(v.answers),
     right_answer |-> Get(v.rightAnswer),
     stage_id |-> Get(v.stageId)]

\* Question.load_from_kv_table, lines 125-136 of Question.py
LoadFromKvTable(table) ==
    LET ks == Items(table, DOMAIN table)
    IN [j \in 1..Len(ks) |-> LoadRecord(ks[j], table[ks[j]])]

\* one record of Question.dump_to_kv_table, lines 141-147 of Question.py
DumpRecord(obj) ==
    [title |-> obj.title,
     type |-> obj.type,
     answers |-> AnswerDumpToKvTable(obj.answers),
     rightAnswer |-> obj.right_answer,
     stageId |-> obj.stage_id]

\* Question.dump_to_kv_table, lines 139-149 of Question.py: a later object
\* of the array takes the key of an earlier one with the same id
RECURSIVE DumpToKvTable(_)
DumpToKvTable(array) ==
    IF array = <<>> THEN EmptyTable
    ELSE LET obj == array[Len(array)]
         IN Put(DumpToKvTable(SubSeq(array, 1, Len(array) - 1)),
                KeyOf(obj.id), DumpRecord(obj))

\* the objects of the array whose id is i, in their order
RECURSIVE WithId(_, _)
WithId(array, i) ==
    IF array = <<>> THEN <<>>
    ELSE (IF array[1].id = i THEN <<array[1]>> ELSE <<>>)
             \o WithId(SubSeq(array, 2, Len(array)), i)

\* sorted(array, key=lambda x: x.id), line 460: ascending ids, objects of
\* one id in the order they had
RECURSIVE SortedFrom(_, _)
SortedFrom(array, i) ==
    IF i > MaxQid THEN <<>> ELSE WithId(array, i) \o SortedFrom(array, i + 1)

SortedById(array) == SortedFrom(array, 0)

\* the records a configuration file holds under "memory": the form of the
\* default configuration of Config.py (lines 17-28, no "stageId"), the
\* same without "rightAnswer", and the two forms do_exam has written
StoredRecords ==
    LET answers == [k \in {"1", "2"} |-> [title |-> "option"]]
        rec(right, stage) ==
            [title |-> "stored", type |-> 2, answers |-> answers,
             rightAnswer |-> right, stageId |-> stage]
    IN {rec("1|2", "absent"), rec("absent", "absent"),
        rec("None", "None"), rec("2", "stage1")}

StoredTables == UNION {[keys -> StoredRecords] : keys \in SUBSET {KeyOf(i) : i \in Qids}}

\* the questions of get_exam_report(report_id)["list"]
WebQuestions ==
    LET answers == <<[answerId |-> 1, answerTitle |-> "choice"],
                     [answerId |-> 2, answerTitle |-> "choice"]>>
    IN {[questionId |-> i, questionTitle |-> "asked", questionType |-> 1,
         answerList |-> answers, rightAnswer |-> right] :
            i \in Qids, right \in {"absent", "1"}}

WebLists == UNION {[1..n -> WebQuestions] : n \in 0..MaxReport}

\* exam_obj["stageId"]
Stages == {"stage2"}

Whole(table) == [state |-> "whole", table |-> table, written |-> TRUE]

\* do_exam is called; Config has read the file (Config.py, lines 42-53)
MemInit ==
    /\ a_pc = "start"
    /\ a_config \in StoredTables
    /\ a_file = Whole(a_config)
    /\ a_memory = <<>>
    /\ a_report = <<>>
    /\ a_old = a_config

\* line 420
A_Load ==
    /\ a_pc = "start"
    /\ a_memory' = LoadFromKvTable(a_config)
    /\ a_pc' = "loaded"
    /\ UNCHANGED <<notMem, a_config, a_file, a_report, a_old>>

\* lines 421-459: the answers are sent in and the report is fetched (any
\* of the calls may raise, which ends do_exam); every Question of the
\* report is given the stage of the exam
A_Report ==
    /\ a_pc = "loaded"
    /\ \/ /\ a_pc' = "raised"
          /\ UNCHANGED a_report
       \/ \E list \in WebLists, stage_id \in Stages :
             /\ a_report' = [j \in 1..Len(list) |->
                                [LoadFromWebData(list[j]) EXCEPT !.stage_id = stage_id]]
             /\ a_pc' = "reported"
    /\ UNCHANGED <<notMem, a_config, a_file, a_memory, a_old>>

\* A_Save with the report put before the memory
A_Save_ReportFirst ==
    /\ a_pc = "reported"
    /\ a_config' = DumpToKvTable(SortedById(a_report \o a_memory))
    /\ \/ a_file' = Whole(a_config')
       \/ a_file' = [a_file EXCEPT !.written = FALSE]
       \/ a_file' = [state |-> "torn", table |-> EmptyTable, written |-> FALSE]
    /\ a_pc' = "done"
    /\ UNCHANGED <<notMem, a_memory, a_report, a_old>>

\* lines 460-461: Config.set, then Config.save_config, which writes the
\* file, or fails to open it, or fails after it has truncated it, and
\* raises nothing (Config.py, lines 60-69)
A_Save ==
    /\ a_pc = "reported"
    /\ a_config' = DumpToKvTable(SortedById(a_memory \o a_report))
    /\ \/ a_file' = Whole(a_config')
       \/ a_file' = [a_file EXCEPT !.written = FALSE]
       \/ a_file' = [state |-> "torn", table |-> EmptyTable, written |-> FALSE]
    /\ a_pc' = "done"
    /\ UNCHANGED <<notMem, a_memory, a_report, a_old>>

(* ====================================================================== *)
(* ObservableLine: _changed and _last_read                                *)
(* ====================================================================== *)
\* One line, the render thread inside line.read() (called by _print, which
\* holds the lock of the TerminalUI) and one thread calling line.write(),
\* which takes that lock only inside on_change, its last statement

\* ObservableLine.__init__, lines 17-20, called by add_line
ObsInit ==
    /\ \E k \in 0..MaxItems : o_content = NewContent(0, k)
    /\ o_changed = TRUE
    /\ o_last_read = <<>>
    /\ o_ver = 0
    /\ o_wpc = "idle"
    /\ o_rpc = "idle"
    /\ o_pos = 0
    /\ o_full = <<>>
    /\ o_detached = FALSE
    /\ o_list = <<>>
    /\ o_raced = FALSE

\* the render thread is between the first and the last statement of read()
InRead == o_rpc # "idle"

\* write(), lines 46-58, no lock held: the line's list is extended in
\* place or _content is bound to the new list (an iterator that is running
\* keeps the list it started on)
O_WriteContent ==
    /\ o_wpc = "idle"
    /\ o_ver < MaxWrites + 1
    /\ \E k \in 0..MaxItems, app \in BOOLEAN :
          LET c == NewContent(o_ver + 1, k)
          IN /\ o_content' = IF app THEN o_content \o c ELSE c
             /\ IF ~app /\ o_rpc = "iter" /\ ~o_detached
                THEN /\ o_detached' = TRUE
                     /\ o_list' = o_content
                ELSE UNCHANGED <<o_detached, o_list>>
    /\ o_ver' = o_ver + 1
    /\ o_raced' = (o_raced \/ InRead)
    /\ o_wpc' = "flag"
    /\ UNCHANGED <<notObs, o_changed, o_last_read, o_rpc, o_pos, o_full>>

\* write(), line 59, no lock held
O_WriteFlag ==
    /\ o_wpc = "flag"
    /\ o_changed' = TRUE
    /\ o_wpc' = "notify"
    /\ UNCHANGED <<notObs, o_content, o_last_read, o_ver, o_rpc, o_pos, o_full,
                   o_detached, o_list, o_raced>>

\* write(), line 60: on_change is _request_print, which waits for the lock
\* the render thread holds while it reads
O_WriteNotify ==
    /\ o_wpc = "notify"
    /\ ~InRead
    /\ o_wpc' = "idle"
    /\ UNCHANGED <<notObs, o_content, o_changed, o_last_read, o_ver, o_rpc,
                   o_pos, o_full, o_detached, o_list, o_raced>>

\* read(), lines 24-25: the string is empty, the for loop takes the list
\* _content is bound to
O_ReadBegin ==
    /\ o_rpc = "idle"
    /\ o_full' = <<>>
    /\ o_pos' = 0
    /\ o_detached' = FALSE
    /\ o_list' = <<>>
    /\ o_raced' = FALSE
    /\ o_rpc' = "iter"
    /\ UNCHANGED <<notObs, o_content, o_changed, o_last_read, o_ver, o_wpc>>

\* the list object the for loop of read() walks
ObsIterList == IF o_detached THEN o_list ELSE o_content

\* read(), lines 25-30: the next item is added to the string
O_ReadItem ==
    /\ o_rpc = "iter"
    /\ o_pos < Len(ObsIterList)
    /\ o_full' = o_full \o RenderItem(ObsIterList[o_pos + 1])
    /\ o_pos' = o_pos + 1
    /\ UNCHANGED <<notObs, o_content, o_changed, o_last_read, o_ver, o_wpc,
                   o_rpc, o_detached, o_list, o_raced>>

\* read(), lines 25 and 34: the list is exhausted, _changed is reset
O_ReadFlag ==
    /\ o_rpc = "iter"
    /\ ~(o_pos < Len(ObsIterList))
    /\ o_changed' = FALSE
    /\ o_rpc' = "store"
    /\ UNCHANGED <<notObs, o_content, o_last_read, o_ver, o_wpc, o_pos, o_full,
                   o_detached, o_list, o_raced>>

\* read(), lines 35-36
O_ReadStore ==
    /\ o_rpc = "store"
    /\ o_last_read' = o_full
    /\ o_rpc' = "idle"
    /\ UNCHANGED <<notObs, o_content, o_changed, o_ver, o_wpc, o_pos, o_full,
                   o_detached, o_list, o_raced>>

(* ====================================================================== *)
(* Specifications                                                         *)
(* ====================================================================== *)

\* no _send call is modelled while another component is followed
SendIdle ==
    /\ s_pc = "off"
    /\ s_max_retries = 1
    /\ s_no_retry = FALSE
    /\ s_iter = 0
    /\ s_log = <<>>
    /\ s_exc = "none"
    /\ s_sleeps = 0
    /\ s_result = Pending

\* no job is submitted while another component is followed
SchedIdle == SchedInit /\ max_jobs = 1 /\ report_interval = 0

\* no _fetch_pagination call is modelled while another component is followed
PageIdle ==
    /\ p_pc = "off"
    /\ p_page_size = 1
    /\ p_max_page_num = 0
    /\ p_page_num = 1
    /\ p_rst = <<>>
    /\ p_calls = <<>>
    /\ p_pages = <<>>
    /\ p_result = Pending

\* no conversion is followed while another component is
ConvIdle ==
    /\ c_dir = "off"
    /\ c_step = 0
    /\ c_in_sec = 0
    /\ c_in_str = <<>>
    /\ c_sec = 0
    /\ c_str = <<>>

\* the display as TerminalUI.__init__ leaves it, with no caller
DispIdle == DispInit

\* no login is followed while another component is
LoginIdle ==
    /\ k_pc = "off"
    /\ k_token = "none"
    /\ k_calls = <<>>
    /\ k_failed = 0

\* no input_validated_number call is followed while another component is
InputIdle ==
    /\ i_pc = "off"
    /\ i_site = Site("int", 5, 1, TRUE, 20)
    /\ i_text = <<>>
    /\ i_val = Num(0)
    /\ i_result = Num(0)

\* no single _watch call is followed while another component is
WatchIdle ==
    /\ v_pc = "off"
    /\ v_start_time = <<>>
    /\ v_total_time = <<>>
    /\ v_interval = 1
    /\ v_start = 0
    /\ v_total = 0
    /\ v_next = 0
    /\ v_fin = 0
    /\ v_log = <<>>
    /\ v_raised = FALSE

ExamIdle ==
    /\ e_pc = "off"
    /\ e_pass = 0
    /\ e_max_retries = 0
    /\ e_left = 0
    /\ e_best = 0
    /\ e_i = 0
    /\ e_scores = <<>>
    /\ e_lines = <<>>

\* no component added after the _watch call is followed
MemIdle ==
    /\ a_pc = "off"
    /\ a_config = EmptyTable
    /\ a_file = Whole(EmptyTable)
    /\ a_memory = <<>>
    /\ a_report = <<>>
    /\ a_old = EmptyTable

ObsIdle ==
    /\ o_content = <<>>
    /\ o_changed = TRUE
    /\ o_last_read = <<>>
    /\ o_ver = 0
    /\ o_wpc = "off"
    /\ o_rpc = "off"
    /\ o_pos = 0
    /\ o_full = <<>>
    /\ o_detached = FALSE
    /\ o_list = <<>>
    /\ o_raced = FALSE

TailIdle == ExamIdle /\ MemIdle /\ ObsIdle

RestIdle == LoginIdle /\ InputIdle /\ WatchIdle /\ TailIdle

OthersIdle == ConvIdle /\ DispIdle /\ RestIdle

SchedStart == SchedInit /\ SendIdle /\ PageIdle /\ OthersIdle

SchedNext ==
    \/ M_Watch
    \/ M_Admit
    \/ M_Start
    \/ M_Append
    \/ M_CheckBegin
    \/ M_CheckStep
    \/ \E w \in Workers : W_IncLoad(w)
    \/ \E w \in Workers : W_IncStore(w)
    \/ \E w \in Workers : W_AddLine(w)
    \/ \E w \in Workers : W_Report(w)
    \/ \E w \in Workers : W_EndLoop(w)
    \/ \E w \in Workers : W_Finish(w)
    \/ \E w \in Workers : W_Complete(w)
    \/ \E w \in Workers : W_Except(w)
    \/ \E w \in Workers : W_DecLoad(w)
    \/ \E w \in Workers : W_DecStore(w)

SchedSpec == SchedStart /\ [][SchedNext]_vars

\* the steps of the thread of job w
WorkerStep(w) ==
    \/ W_IncLoad(w)
    \/ W_IncStore(w)
    \/ W_AddLine(w)
    \/ W_Report(w)
    \/ W_EndLoop(w)
    \/ W_Finish(w)
    \/ W_Complete(w)
    \/ W_Except(w)
    \/ W_DecLoad(w)
    \/ W_DecStore(w)

\* the same threads and one more watch() call; every thread that can take
\* a step takes one in the end: a started worker runs to its end (its
\* sleeps and remote calls return or raise) and the polling loop of line
\* 380 is left once it finds the counter below max_jobs
SchedFairNext ==
    \/ SchedNext
    \/ M_WatchLast

SchedFairSpec ==
    /\ SchedStart
    /\ [][SchedFairNext]_vars
    /\ WF_vars(M_Admit)
    /\ \A w \in Workers : WF_vars(WorkerStep(w))

SendStart == SendInit /\ SchedIdle /\ PageIdle /\ OthersIdle

SendNext ==
    \/ S_Request
    \/ S_Handle
    \/ S_Exhausted

SendSpec == SendStart /\ [][SendNext]_vars

PageStart == PageInit /\ SchedIdle /\ SendIdle /\ OthersIdle

PageNext ==
    \/ P_Fetch
    \/ P_LimitReached

PageSpec == PageStart /\ [][PageNext]_vars

ConvStart == ConvInit /\ SchedIdle /\ SendIdle /\ PageIdle /\ DispIdle /\ RestIdle

ConvNext ==
    \/ C_ToString
    \/ C_ToSecond

ConvSpec == ConvStart /\ [][ConvNext]_vars

DispStart == DispInit /\ SchedIdle /\ SendIdle /\ PageIdle /\ ConvIdle /\ RestIdle

DispNext ==
    \/ \E u \in Callers : U_AddLine(u)
    \/ \E u \in Callers : U_RemoveLine(u)
    \/ \E u \in Callers : U_RemoveAllLines(u)
    \/ \E u \in Callers : U_WriteContent(u)
    \/ \E u \in Callers : U_WriteSignal(u)
    \/ R_Enter
    \/ R_Check
    \/ R_Wake
    \/ R_Reset
    \/ R_PrintEnter
    \/ R_ReadItem
    \/ R_ReadEnd
    \/ R_Clear
    \/ R_Write

DispSpec == DispStart /\ [][DispNext]_vars

LoginStart ==
    LoginInit /\ SchedIdle /\ SendIdle /\ PageIdle /\ ConvIdle /\ DispIdle
        /\ InputIdle /\ WatchIdle /\ TailIdle

LoginNext ==
    \/ K_NoStored
    \/ K_AutoCall
    \/ K_Answer
    \/ K_Captcha
    \/ K_Login
    \/ K_Later

LoginSpec == LoginStart /\ [][LoginNext]_vars

InputStart ==
    InputInit /\ SchedIdle /\ SendIdle /\ PageIdle /\ ConvIdle /\ DispIdle
        /\ LoginIdle /\ WatchIdle /\ TailIdle

InputNext ==
    \/ I_Convert
    \/ I_Validate

InputSpec == InputStart /\ [][InputNext]_vars

WatchStart ==
    WatchInit /\ SchedIdle /\ SendIdle /\ PageIdle /\ ConvIdle /\ DispIdle
        /\ LoginIdle /\ InputIdle /\ TailIdle

WatchNext ==
    \/ V_Parse
    \/ V_Range
    \/ V_Tick
    \/ V_EndLoop
    \/ V_Finish
    \/ V_Complete
    \/ V_Except

WatchSpec == WatchStart /\ [][WatchNext]_vars

ExamStart ==
    ExamInit /\ SchedIdle /\ SendIdle /\ PageIdle /\ ConvIdle /\ DispIdle
        /\ LoginIdle /\ InputIdle /\ WatchIdle /\ MemIdle /\ ObsIdle

ExamNext ==
    \/ E_NextExam
    \/ E_Attempt
    \/ E_LoopEnd
    \/ E_AfterLoop
    \/ E_Return

ExamSpec == ExamStart /\ [][ExamNext]_vars

MemStart ==
    MemInit /\ SchedIdle /\ SendIdle /\ PageIdle /\ ConvIdle /\ DispIdle
        /\ LoginIdle /\ InputIdle /\ WatchIdle /\ ExamIdle /\ ObsIdle

MemNext ==
    \/ A_Load
    \/ A_Report
    \/ A_Save

MemSpec == MemStart /\ [][MemNext]_vars

ObsStart ==
    ObsInit /\ SchedIdle /\ SendIdle /\ PageIdle /\ ConvIdle /\ DispIdle
        /\ LoginIdle /\ InputIdle /\ WatchIdle /\ ExamIdle /\ MemIdle

ObsNext ==
    \/ O_WriteContent
    \/ O_WriteFlag
    \/ O_WriteNotify
    \/ O_ReadBegin
    \/ O_ReadItem
    \/ O_ReadFlag
    \/ O_ReadStore

ObsSpec == ObsStart /\ [][ObsNext]_vars

\* the steps of the render thread
RenderStep ==
    \/ R_Enter
    \/ R_Check
    \/ R_Wake
    \/ R_Reset
    \/ R_PrintEnter
    \/ R_ReadItem
    \/ R_ReadEnd
    \/ R_Clear
    \/ R_Write

\* the same threads and one that calls dispose(); the render thread and,
\* once inside dispose(), the disposing thread take a step whenever they
\* can: no thread keeps the lock beyond its with block and the target
\* takes what is written to it
DispLifeNext ==
    \/ DispNext
    \/ X_SetFlag
    \/ X_Notify
    \/ X_Join

DispLifeSpec ==
    /\ DispStart
    /\ [][DispLifeNext]_vars
    /\ WF_vars(RenderStep)
    /\ WF_vars(X_Notify)
    /\ WF_vars(X_Join)

\* the same threads with a target whose write and flush may raise
DispFailNext ==
    \/ DispNext
    \/ \E u \in Callers : U_RemoveAllLines_Raises(u)
    \/ R_ClearRaises
    \/ R_WriteRaises

DispFailSpec == DispStart /\ [][DispFailNext]_vars

(* ====================================================================== *)
(* Properties                                                             *)
(* ====================================================================== *)

Running == {w \in Workers : IsAlive(w)}
Launched == {w \in Workers : wpc[w] # "unstarted"}
Submitted == {threads[i] : i \in 1..Len(threads)}
AllDead == \A w \in Workers : ~IsAlive(w)

\* C1: in every reachable state 0 <= _now_jobs <= max_jobs.
\* (Violated: watch() tests the counter, but the admitted worker raises it
\* only once it runs, so a second watch() passes the same test.)
C1_ActiveCountInRange == 0 <= now_jobs /\ now_jobs <= max_jobs

\* C2: the number of workers started and not yet finished never exceeds
\* max_jobs, also for submits issued back to back.
C2_RunningBounded == Cardinality(Running) <= max_jobs

\* C3: when watch() has returned, the job it admitted has already been
\* counted in _now_jobs (the increment belongs to the submit).
C3_CountedOnReturn == \A w \in Submitted : wincs[w] >= 1

\* C4: every worker that incremented _now_jobs decrements it exactly once
\* on every exit path, so once all submitted workers have finished
\* _now_jobs is 0.
C4_ReleasedOnEveryPath ==
    /\ \A w \in Workers : wpc[w] = "done" => (wincs[w] = 1 /\ wdecs[w] = 1)
    /\ (Launched # {} /\ AllDead) => now_jobs = 0

\* the part of C4 that the code keeps: one increment and one decrement per
\* finished worker, whatever the exit path
C4_Paired == \A w \in Workers : wpc[w] = "done" => (wincs[w] = 1 /\ wdecs[w] = 1)

\* C5: a condition raised inside a worker is caught by that worker, which
\* writes the error to its own Line, still executes its decrement and
\* terminates; a worker in which nothing was raised never shows the error
\* and ends completed; is_subthread_completed answers true once all
\* workers, failed ones included, are dead.
C5_FailureIsolated ==
    /\ \A w \in Workers :
          /\ (wraised[w] /\ wpc[w] \in {"dec_load", "dec_store", "done"}) => wline[w] = "error"
          /\ (wraised[w] /\ wpc[w] = "done") => wdecs[w] = 1
          /\ ~wraised[w] => wline[w] # "error"
          /\ (~wraised[w] /\ wpc[w] = "done") => wline[w] = "completed"
          /\ wpc[w] = "except" => wraised[w]
    /\ ((\E w \in Workers : wraised[w]) /\ chk_all_done /\ chk_result # "none")
          => chk_result = "true"

C5_Witness ==
    \E w, v \in Workers :
        /\ w # v
        /\ wraised[w] /\ wpc[w] = "done" /\ wline[w] = "error" /\ wdecs[w] = 1
        /\ ~wraised[v] /\ wpc[v] = "done" /\ wline[v] = "completed"
        /\ chk_result = "true"

\* C6: is_subthread_completed returns true only when every launched worker
\* is dead, and returns false only if some submitted worker was still alive
\* when it was called.
C6_AllFinishedExact ==
    /\ chk_result = "true" => AllDead
    /\ chk_result = "false" => ~chk_all_done

C6_Witness ==
    /\ chk_result = "true"
    /\ Len(threads) = NumJobs
    /\ \A w \in Workers : wpc[w] = "done"

IsTransportFailure(r) == r.exc \in TransportErrors
IsEnvelope(r) == r.exc = "none" /\ r.status = 200 /\ r.body = "object" /\ r.ctype = "int"
NumFailures == Cardinality({i \in 1..Len(s_log) : IsTransportFailure(s_log[i])})
LastResponse == s_log[Len(s_log)]

\* C7: with max_retries = N and retries allowed, k transport failures
\* followed by a success (k < N) return the payload after exactly k+1
\* requests; N transport failures raise "Max retires exceeded" after exactly
\* N requests, and that condition is raised in no other case.
C7_RetryCount ==
    (s_pc = "done" /\ ~s_no_retry) =>
        /\ (s_log # <<>> /\ IsEnvelope(LastResponse) /\ LastResponse.code = CODE_SUCCESS) =>
              /\ s_result = Returned(LastResponse.data)
              /\ Len(s_log) = NumFailures + 1
              /\ NumFailures < s_max_retries
        /\ NumFailures = Len(s_log) =>
              /\ s_result = Raised("RuntimeError:max_retries")
              /\ Len(s_log) = s_max_retries
        /\ s_result = Raised("RuntimeError:max_retries") =>
              /\ NumFailures = s_max_retries
              /\ Len(s_log) = s_max_retries

C7_Witness ==
    /\ s_pc = "done" /\ ~s_no_retry /\ s_max_retries = 3
    /\ Len(s_log) = 3 /\ NumFailures = 2
    /\ s_result = Returned("payload")

\* C8: a response whose status is not 200 is retried like a transport
\* failure: the call fails only when all max_retries requests were issued.
C8_Non200Retried ==
    (s_pc = "done" /\ ~s_no_retry /\ s_log # <<>>
        /\ LastResponse.exc = "none" /\ LastResponse.status # 200)
    => Len(s_log) = s_max_retries

EnvelopeOutcome(r) ==
    IF r.code = CODE_SUCCESS THEN Returned(r.data)
    ELSE IF r.code = CODE_UNAUTHORIZED THEN Raised("UnauthorizedError")
    ELSE IF r.code = CODE_PERMISSION THEN Raised("PermissionError")
    ELSE Raised("InvalidRequestError")

\* C9: a 200 response with an integer code is never followed by another
\* request, and the call ends with the outcome its code stands for: the
\* data field, UnauthorizedError, PermissionError, or InvalidRequestError
\* for any other code.
C9_EnvelopeNotRetried ==
    \A i \in 1..Len(s_log) :
        IsEnvelope(s_log[i]) =>
            /\ i = Len(s_log)
            /\ s_pc # "loop"
            /\ s_sleeps = i - 1
            /\ s_pc = "done" => s_result = EnvelopeOutcome(s_log[i])

C9_Witness ==
    /\ s_pc = "done" /\ ~s_no_retry /\ s_max_retries = 3
    /\ Len(s_log) = 1 /\ IsEnvelope(s_log[1]) /\ s_log[1].code = CODE_PERMISSION
    /\ s_result = Raised("PermissionError")

\* C10: under no_retry at most one request is issued whatever max_retries
\* is, nothing is slept, and a transport failure of that request is the
\* condition the caller gets.
C10_NoRetrySingleAttempt ==
    s_no_retry =>
        /\ Len(s_log) <= 1
        /\ s_sleeps = 0
        /\ s_pc = "done" =>
              /\ Len(s_log) = 1
              /\ IsTransportFailure(s_log[1]) => s_result = Raised(s_log[1].exc)

C10_Witness ==
    /\ s_no_retry /\ s_max_retries = 3 /\ s_pc = "done"
    /\ Len(s_log) = 1 /\ s_result = Raised("ConnectionError")

PageSizes == [i \in 1..Len(p_pages) |-> p_pages[i].n]
IsFullList(r) == r.kind = "list" /\ ~(r.n < p_page_size)
IsShortList(r) == r.kind = "list" /\ r.n < p_page_size

\* the concatenation, in page order, of the lists of the first k pages
RECURSIVE ConcatPages(_)
ConcatPages(k) ==
    IF k = 0 THEN <<>>
    ELSE ConcatPages(k - 1)
         \o (IF p_pages[k].kind = "list" THEN PageItems(k, p_pages[k].n) ELSE <<>>)

\* C11: the calls carry pageNum = 1, 2, 3, ... and pageSize = page_size; no
\* call follows the first page with fewer than page_size items, every page
\* before the last was a full list and a full list ends the calls only at
\* the page limit, and what is returned is the concatenation of the pages
\* in page order.
C11_StopsAtFirstShortPage ==
    /\ Len(p_calls) = Len(p_pages)
    /\ \A i \in 1..Len(p_calls) :
          p_calls[i] = [pageNum |-> i, pageSize |-> p_page_size]
    /\ \A i \in 1..Len(p_pages) :
          /\ IsShortList(p_pages[i]) => (i = Len(p_pages) /\ p_pc = "done")
          /\ i < Len(p_pages) => IsFullList(p_pages[i])
    /\ (p_pc = "done" /\ p_result.kind = "return") => p_rst = ConcatPages(Len(p_pages))
    /\ (p_pc = "done" /\ p_pages # <<>> /\ IsShortList(p_pages[Len(p_pages)]))
          => p_result = Returned("rst")
    /\ (p_pc = "done" /\ p_pages # <<>> /\ IsFullList(p_pages[Len(p_pages)]))
          => Len(p_pages) = p_max_page_num

C11_Witness ==
    /\ p_pc = "done" /\ p_result = Returned("rst")
    /\ p_page_size = 2
    /\ PageSizes = <<2, 2, 2, 1>>
    /\ Len(p_calls) = 4
    /\ Len(p_rst) = 7

\* C12: never more than max_page_num calls are made; when every page is a
\* full list the call returns, after exactly max_page_num calls, the items
\* of all of them.
C12_PageLimit ==
    /\ Len(p_calls) <= p_max_page_num
    /\ (p_pc = "done" /\ \A i \in 1..Len(p_pages) : IsFullList(p_pages[i])) =>
          /\ p_result = Returned("rst")
          /\ Len(p_calls) = p_max_page_num
          /\ p_rst = ConcatPages(p_max_page_num)

C12_Witness ==
    /\ p_pc = "done" /\ p_result = Returned("rst")
    /\ p_max_page_num = 3 /\ p_page_size = 2
    /\ PageSizes = <<2, 2, 2>>
    /\ \A i \in 1..3 : IsFullList(p_pages[i])
    /\ Len(p_rst) = 6

\* C13: when a page's response has no "list" field, or one that is not a
\* list, the call returns the items accumulated from the earlier pages.
C13_GracefulStop ==
    (p_pc = "done" /\ p_pages # <<>>
        /\ p_pages[Len(p_pages)].kind \in {"no_list", "not_a_list"})
    => (p_result = Returned("rst") /\ p_rst = ConcatPages(Len(p_pages) - 1))

\* C14: for every integer 0 <= s < 24h, parsing the formatted s gives s;
\* for every zero-padded HH:MM:SS string t below 24h, formatting the
\* parsed t gives t; "00:00:00" parses to 0.
C14_RoundTrip ==
    /\ (c_dir = "sec" /\ c_step = 2) => c_sec = c_in_sec
    /\ (c_dir = "str" /\ c_step = 2) => c_str = c_in_str
    /\ (c_dir = "str" /\ c_step >= 1 /\ c_in_str = <<"0", "0", ":", "0", "0", ":", "0", "0">>)
          => c_sec = 0

C14_Witness ==
    /\ c_dir = "str" /\ c_step = 2
    /\ c_in_str = <<"2", "3", ":", "0", "5", ":", "0", "9">>
    /\ c_sec = 23 * 3600 + 5 * 60 + 9
    /\ c_str = c_in_str

\* C15: with report_interval = 0 a job runs to successful completion: the
\* worker ends with its Line in the completed state, not the error state.
\* (Violated: range(start, total, 0) raises ValueError at line 357, the
\* handler of line 369 writes the error to the Line.)
C15_ZeroIntervalCompletes ==
    \A w \in Workers :
        (report_interval = 0 /\ wpc[w] = "done") =>
            (wline[w] = "completed" /\ ~wraised[w])

\* C19: no increment or decrement of _now_jobs is lost: whenever no worker
\* is between the load and the store of an update, _now_jobs is the
\* number of workers that have incremented and not yet decremented.
\* (Violated: lines 352 and 372 are plain += / -= with no lock.)
C19_NoLostUpdate ==
    (\A w \in Workers : wpc[w] \notin {"inc_store", "dec_store"}) =>
        now_jobs = Cardinality({w \in Workers : wincs[w] = 1 /\ wdecs[w] = 0})

\* the render thread is inside _print, between taking and releasing the lock
InPrint == r_pc \in {"read", "write"}

\* the strings read() returns for the values line l has had during the
\* repaint in progress
Versions(l) == {RenderAll(c) : c \in l_hist[l]}

\* C16: a repaint renders one state of the LineSet, taken under the lock:
\* while _print runs the render thread holds the lock and self.lines is
\* what it was when the lock was taken; the repaint has one string per
\* line of that list, in order; each string is the complete rendering of
\* one value the line's content has had (never part of one write and part
\* of another); and between the clear and the text of a repaint nothing
\* else is written to the terminal.
C16_ConsistentRepaint ==
    /\ InPrint =>
          /\ d_lock = "render"
          /\ r_snap = d_lines
          /\ Len(r_out) <= Len(r_snap)
          /\ \A i \in 1..Len(r_out) : r_out[i] \in Versions(r_snap[i])
    /\ r_pc = "write" =>
          /\ Len(r_out) = Len(r_snap)
          /\ t_last = [by |-> "render", what |-> "clear", op |-> "_print"]

\* a repaint of two lines is about to be written, one of which was written
\* to after it was read
C16_Witness ==
    /\ r_pc = "write"
    /\ Len(r_out) = 2
    /\ \E i \in 1..2 : r_out[i] # RenderAll(l_content[r_snap[i]])
    /\ \E u \in Callers : u_pc[u] = "w_signal"

C18_NoSnapshotDuringWrite ==
    (\E u \in Callers : u_pc[u] = "w_signal") => ~InPrint

\* C20: after remove_all_lines followed by add_line(X), with self.lines
\* not changed since, every snapshot the render thread takes has exactly
\* the one line X, whatever is written to the handles of earlier lines.
C20_OnlyNewLine ==
    (g_sole # 0 /\ InPrint) =>
        /\ r_snap = <<g_sole>>
        /\ r_pc = "write" => (Len(r_out) = 1 /\ r_out[1] \in Versions(g_sole))

\* line 2 was added after remove_all_lines, its repaint is about to be
\* written, and line 1 was written to while that repaint was under way
C20_Witness ==
    /\ g_sole = 2
    /\ r_pc = "write"
    /\ r_out = <<RenderAll(l_content[2])>>
    /\ Cardinality(l_hist[1]) = 2

\* C21: remove_line takes away the line whose handle it was given and no
\* other, whatever the contents are; the lines left keep their order; a
\* handle taken away before makes no difference, and neither does a write
\* to it: the lines on display are, in the order of their creation, the
\* lines created and not taken away, and the list a repaint under way
\* walks is that list
C21_RemoveByIdentity ==
    /\ \A i, j \in 1..Len(d_lines) : i < j => d_lines[i] < d_lines[j]
    /\ {d_lines[i] : i \in 1..Len(d_lines)} = (1..d_next) \ g_gone
    /\ InPrint => r_snap = d_lines

\* line 2 was taken away while line 1 had the same content, and written to
\* afterwards; line 1 is on display
C21_Witness ==
    /\ d_lines = <<1>>
    /\ g_gone = {2}
    /\ g_late = {2}
    /\ l_ver[1] = 0

C23_FailureSwallowed ==
    /\ \A u \in Callers : u_pc[u] # "raised"
    /\ r_pc # "dead"

\* the last _send call made was a login that the server rejected with the
\* permission code
LoginRejected ==
    /\ k_calls # <<>>
    /\ k_calls[Len(k_calls)].op = "login"
    /\ k_calls[Len(k_calls)].out = "permission"

\* C24: a login rejected with the permission condition does not end the
\* process: the failure line is added and the loop is back at its prompt,
\* with no token in the session; the loop is left only by a login that
\* succeeded, the token is then the one of its answer and every later call
\* carries it.
\* (Violated: get_user_info, called by auto_login before, has left the
\* stored token in the headers, line 137.)
C24_RejectedLoginReprompts ==
    /\ LoginRejected =>
          (k_pc = "prompt" /\ k_failed >= 1 /\ k_token = "none")
    /\ k_pc \in {"in", "used"} =>
          /\ k_token = "new"
          /\ \E j \in 1..Len(k_calls) :
                k_calls[j].op = "login" /\ k_calls[j].out = "data"
    /\ \A j \in 1..Len(k_calls) :
          k_calls[j].op = "later" => k_calls[j].token = "new"

\* what holds of the loop itself: a rejected login leads back to the
\* prompt with the failure line added and the token as it was before the
\* call; the loop is left only by a login that succeeded, whose token every
\* later call carries
C24_LoopOnly ==
    /\ LoginRejected =>
          /\ k_pc = "prompt" /\ k_failed >= 1
          /\ k_token = k_calls[Len(k_calls)].token
          /\ k_token # "new"
    /\ k_pc \in {"in", "used"} =>
          /\ k_token = "new"
          /\ \E j \in 1..Len(k_calls) :
                k_calls[j].op = "login" /\ k_calls[j].out = "data"
    /\ \A j \in 1..Len(k_calls) :
          k_calls[j].op = "later" => k_calls[j].token = "new"

\* min_val <= v <= max_val (where there is a max_val)
Within(v) ==
    /\ ~v.nan
    /\ i_site.min_val.n <= v.n
    /\ i_site.has_max => v.n <= i_site.max_val.n

\* the line typed in is empty, is no number, or is a number below min_val
\* or above max_val
Rejected ==
    LET p == ParseNumber(i_site.type, i_text)
    IN \/ i_text = <<>>
       \/ ~p.ok
       \/ (~p.val.nan /\ p.val.n < i_site.min_val.n)
       \/ (~p.val.nan /\ i_site.has_max /\ p.val.n > i_site.max_val.n)

\* C25: input_validated_number returns the default when the input is
\* empty, unparsable, below min_val or above max_val, and the parsed input
\* otherwise; so with a default inside [min_val, max_val] what it returns
\* is inside too.
\* (Violated: float("nan") is neither below min_val nor above max_val.)
C25_DefaultOrParsed ==
    i_pc = "returned" =>
        /\ Rejected => i_result = i_site.default_val
        /\ ~Rejected => i_result = ParseNumber(i_site.type, i_text).val
        /\ Within(i_site.default_val) => Within(i_result)

\* what holds: the first two parts for every input_type, the third for int
C25_IntWithin ==
    i_pc = "returned" =>
        /\ Rejected => i_result = i_site.default_val
        /\ ~Rejected => i_result = ParseNumber(i_site.type, i_text).val
        /\ (i_site.type = "int" /\ Within(i_site.default_val)) => Within(i_result)

\* the calls of set_resource_progress that returned
Reports == {j \in 1..Len(v_log) : v_log[j].ev \in {"report", "finish"}}

\* C26: every position a worker reports lies within [0, total] seconds,
\* whatever the start offset, the total duration and the perturbation of
\* the tick are; the same holds of the position of a report that failed
C26_PositionInRange ==
    \A j \in 1..Len(v_log) :
        v_log[j].ev \in {"report", "finish", "failed"} =>
            /\ HhmmssToSecond(v_log[j].time) >= 0
            /\ HhmmssToSecond(v_log[j].time) <= v_total

\* the worker is through; one of its reports was of a perturbed tick and
\* carried the total duration, another one a position before its tick
C26_Witness ==
    /\ v_pc = "done"
    /\ ~v_raised
    /\ \E j \in Reports :
          /\ v_log[j].ev = "report"
          /\ v_log[j].tick < v_total
          /\ HhmmssToSecond(v_log[j].time) = v_total
    /\ \E j \in Reports :
          /\ v_log[j].ev = "report"
          /\ HhmmssToSecond(v_log[j].time) < v_log[j].tick

\* the writes and reports of rounds t, t + step, ... below total
RECURSIVE ProgressFrom(_, _, _)
ProgressFrom(t, total, step) ==
    IF t >= total THEN <<>>
    ELSE <<<<"line", t>>, <<"report", t>>>> \o ProgressFrom(t + step, total, step)

\* what a worker with the given start, total and step is to do, in order
Expected(start, total, step) ==
    <<<<"preparing", 0>>>>
        \o (IF step > 0 THEN ProgressFrom(start, total, step) ELSE <<>>)
        \o <<<<"closing", 0>>>>
        \o [j \in 1..FINISHING_REPORT_TIMES |-> <<"finish", 0>>]
        \o <<<<"completed", 0>>>>

Done(log) == [j \in 1..Len(log) |-> <<log[j].ev, log[j].tick>>]

IsPrefix(a, b) == Len(a) <= Len(b) /\ a = SubSeq(b, 1, Len(a))

\* what the claim says of a worker all of whose remote calls return; with
\* step 0 it is stated for start >= total only, where no tick is due
InOrder ==
    (/\ \A j \in 1..Len(v_log) : v_log[j].ev # "failed"
     /\ v_pc # "start"
     /\ v_interval > 0 \/ v_start >= v_total)
    => /\ IsPrefix(Done(v_log), Expected(v_start, v_total, v_interval))
       /\ v_pc = "done" =>
             Done(v_log) = Expected(v_start, v_total, v_interval)
       /\ \A j \in 1..Len(v_log) :
             v_log[j].ev = "finish" => v_log[j].time = v_total_time

\* C27: a worker whose remote calls all succeed writes its Line and then
\* reports, once for each tick from start (inclusive) to total (exclusive)
\* in steps of the report interval, then sends FINISHING_REPORT_TIMES
\* reports carrying the total duration, and only then sets its Line to the
\* completed state; with start >= total only the finishing reports are
\* sent.
\* (Violated with report_interval = 0: range() raises, nothing is sent.)
C27_ReportOrder == InOrder

\* the same for a report interval above 0
C27_PositiveInterval == v_interval > 0 => InOrder

\* C28: with every started worker running to its end, a watch() call that
\* waits in its polling loop finds the counter below max_jobs in the end
\* and goes on; it is never left waiting with no worker running.
\* (Violated: after a lost update of line 352 or 372 the counter stays at
\* max_jobs or above with every worker dead.)
C28_BackpressureLive == (mpc = "wait") ~> (mpc # "wait")

\* every increment and decrement was carried out and every worker is dead,
\* with the counter not back at 0
C28_StuckCounter ==
    /\ \A w \in Workers : wpc[w] = "done"
    /\ now_jobs >= max_jobs
    /\ mpc = "wait"

\* _print has just taken the lock: its walk over self.lines begins
JustEntered ==
    r_pc = "read" /\ r_idx = 1 /\ r_pos = 0 /\ r_full = <<>> /\ r_out = <<>>

\* C29: no repaint request is lost. add_line, remove_line of a line on
\* display and remove_all_lines end, and write ends, with the flag set
\* under the lock; while the engine is running a set flag is followed by a
\* repaint that takes the lock, and so its snapshot, after that, and every
\* repaint begun is written to the terminal
C29_NoLostRequest ==
    /\ (d_print_requested /\ d_running) ~> (JustEntered \/ ~d_running)
    /\ InPrint ~> (r_pc = "top" /\ t_last.what = "full")

\* a request made between the flag reset of line 148 and the lock taken by
\* _print: the repaint that serves it begins with the flag set again
C29_Witness ==
    /\ JustEntered
    /\ d_print_requested
    /\ d_running
    /\ Len(d_lines) > 0

\* C30: dispose() returns, wherever the render thread is when it is
\* called; by then the render thread has left its loop, which it does not
\* enter again, so it writes nothing more to the terminal
C30_DisposeTerminates ==
    /\ (x_pc # "idle") ~> (x_pc = "returned")
    /\ [](x_pc = "returned" => r_pc = "exit")
    /\ [][r_pc = "exit" => (r_pc' = "exit" /\ (t_last' # t_last => t_last'.by # "render"))]_vars

\* dispose() has returned; the render thread had made a repaint and was
\* left with a request it will not serve
C30_Witness ==
    /\ x_pc = "returned"
    /\ r_pc = "exit"
    /\ d_print_requested
    /\ g_shown # [l \in LineIds |-> 0]

\* the conditions _send names for its callers
ClosedSet ==
    {"PermissionError", "UnauthorizedError", "InvalidRequestError", "RuntimeError:max_retries"}

\* C31: every outcome of _send is the returned payload, UnauthorizedError,
\* PermissionError, InvalidRequestError or, once every iteration of the
\* loop ended in a transport failure, the RuntimeError of line 93; no
\* response makes _send raise anything else.
\* (Violated: a non-200 status and a body that is not a JSON object with an
\* integer code raise RuntimeError at lines 70, 74 and 77, a body that is
\* not JSON raises JSONDecodeError at line 72, and none of them is caught.)
C31_ClosedOutcomes ==
    s_pc = "done" =>
       \/ s_result.kind = "return"
       \/ /\ s_result.kind = "raise"
          /\ s_result.val \in ClosedSet
          /\ s_result.val = "RuntimeError:max_retries" =>
                /\ Len(s_log) = LoopBound
                /\ \A j \in 1..Len(s_log) : s_log[j].exc \in TransportErrors

\* the same for a call that is allowed to retry and whose responses all
\* have status 200 and a JSON object with an integer code
C31_WellFormedClosed ==
    (/\ s_pc = "done"
     /\ ~s_no_retry
     /\ \A j \in 1..Len(s_log) :
           s_log[j].exc = "none" =>
              s_log[j].status = 200 /\ s_log[j].body = "object" /\ s_log[j].ctype = "int")
    => C31_ClosedOutcomes

\* the positions handed to set_resource_progress, in seconds
Sent == {j \in 1..Len(v_log) : v_log[j].ev \in {"report", "finish", "failed"}}

\* no position handed over is below an earlier one, and a worker whose
\* calls all returned has handed over the total duration last
NeverBack ==
    /\ \A j, k \in Sent :
          j < k => HhmmssToSecond(v_log[j].time) <= HhmmssToSecond(v_log[k].time)
    /\ (v_pc = "done" /\ ~v_raised) =>
          /\ Sent # {}
          /\ \A j \in Sent :
                (\A k \in Sent : k <= j) => v_log[j].time = v_total_time

\* C32: within one job the positions reported never decrease, for every
\* report interval of 1 or more and every perturbation, and the last one
\* is the total duration.
\* (Violated with report_interval = 1: the tick t + 1 perturbed upwards is
\* rounded to t + 2, the next tick t + 2 perturbed downwards to t + 1.)
C32_PositionsNeverDecrease == v_interval >= 1 => NeverBack

\* the same for a report interval of 2 or more, where the perturbed ranges
\* of two ticks do not overlap
C32_FromStepTwo == v_interval >= 2 => NeverBack

\* the attempts made for the exam being visited
Attempts == {j \in 1..Len(e_lines) : e_lines[j] = "attempt"}

\* C33, the attempts: an exam whose best score is below pass_score is
\* attempted at most max_retries times, and no attempt follows one whose
\* score reached pass_score
C33_AttemptsBounded ==
    /\ Cardinality(Attempts) <= e_max_retries
    /\ e_best >= e_pass => Attempts = {}
    /\ \A j \in 1..Len(e_scores) : e_scores[j] >= e_pass => j = Len(e_scores)

\* C33: in do_lesson_exam_all an exam below pass_score is attempted at
\* most max_retries times, the attempts stop at the first score that
\* reaches pass_score, and the "skipped, the maximum number of attempts was
\* reached" line is added only when max_retries attempts all scored below
\* pass_score, never after an attempt that passed.
\* (Violated: line 484 follows the for loop without an else, so it runs
\* after the break of line 481 as well.)
C33_SkipLineOnlyOnExhaustion ==
    /\ C33_AttemptsBounded
    /\ \A j \in 1..Len(e_lines) :
          e_lines[j] = "skipped_max" =>
             /\ Len(e_scores) = e_max_retries
             /\ \A k \in 1..Len(e_scores) : e_scores[k] < e_pass

\* the ids of the questions of the report
ReportIds == {a_report[j].id : j \in 1..Len(a_report)}

\* the last Question of the report with the id
LastOf(i) == LET w == WithId(a_report, i) IN w[Len(w)]

\* the table under "memory" has a record for every id of the report, which
\* reads as the Question of the report with the stage of the exam, and has
\* the keys it had and those of the report, no other
ReportTakesOver ==
    /\ \A i \in ReportIds :
          /\ KeyOf(i) \in DOMAIN a_config
          /\ LoadRecord(KeyOf(i), a_config[KeyOf(i)]) = LastOf(i)
    /\ DOMAIN a_config = DOMAIN a_old \cup {KeyOf(i) : i \in ReportIds}
    /\ a_file.written => a_file = Whole(a_config)

\* C34: after do_exam the answer memory maps every question id of the exam
\* report to the record from that report, whatever record it had for the
\* id before, and every record whose id is not in the report is unchanged.
\* (Violated: a record without "stageId", as the one of the default
\* configuration, is written back with "stageId": null.)
C34_MemoryMerged ==
    a_pc = "done" =>
       /\ ReportTakesOver
       /\ \A k \in DOMAIN a_old :
             IdOf(k) \notin ReportIds =>
                k \in DOMAIN a_config /\ a_config[k] = a_old[k]

\* C34 as amended: after do_exam the answer memory maps every question id
\* of the exam report to the record from that report, and every record
\* whose id is not in the report reads as the same Question as before; the
\* keys "rightAnswer" and "stageId" it did not have are stored as null
C34_MemoryMergedAsRead ==
    a_pc = "done" =>
       /\ ReportTakesOver
       /\ \A k \in DOMAIN a_old :
             IdOf(k) \notin ReportIds =>
                /\ k \in DOMAIN a_config
                /\ LoadRecord(k, a_config[k]) = LoadRecord(k, a_old[k])
                /\ a_config[k] = DumpRecord(LoadRecord(k, a_old[k]))

\* do_exam is over; the report had a question the memory had a record of,
\* and the memory had a record without "stageId" of a question the report
\* did not have
C34_Witness ==
    /\ a_pc = "done"
    /\ \E k \in DOMAIN a_old : IdOf(k) \in ReportIds
    /\ \E k \in DOMAIN a_old :
          IdOf(k) \notin ReportIds /\ a_old[k].stageId = "absent"

\* _last_read is the string of the content the line has now
Fresh == o_last_read = RenderAll(o_content)

\* neither read() nor write() is between two of its assignments
AtRest == ~InRead /\ o_wpc # "flag"

\* C35: for every ObservableLine and every interleaving of a write with
\* the read of the render thread, whenever _changed is False (and neither
\* call is half way through its assignments) _last_read is the rendering
\* of the line's content; no write is left with _changed False and a last
\* read that predates it.
\* (Violated: write() assigns _content and sets _changed with no lock
\* held, so both can fall between the for loop of read() and its line 34,
\* which then resets _changed and stores the string of the old content.)
C35_UnchangedMeansFresh == (~o_changed /\ AtRest) => Fresh

\* the same for a read() during which _content was not assigned
C35_FreshWithoutRace == (~o_changed /\ AtRest /\ ~o_raced) => Fresh

====
